---- MODULE Spec2Model ----
(***************************************************************************)
(* Chunked, resumable upload engine: Storage (backend/app/storage.py) and  *)
(* UploadService (backend/app/upload_service.py).                          *)
(*                                                                         *)
(* The filesystem is modelled by name: committed chunks <id>/<i>.chunk,    *)
(* temp files <id>/<i>.chunk.tmp and the completed files.  A file          *)
(* descriptor keeps pointing at its inode when the name is renamed or      *)
(* unlinked, so every open descriptor records where its inode currently    *)
(* is: under the temp name, under the committed name, or nowhere.          *)
(* Request handlers run on threads; every step is one filesystem call or   *)
(* one access to the in-memory registry.                                   *)
(***************************************************************************)
EXTENDS Integers, Sequences, FiniteSets, TLC

\* ------------------------------------------------------------------ bounds
NumThreads == 4
MaxChunks == 3
SeqMaxSize == 4
DistinctN == 3
MaxFaults == 3

\* CHUNK_SIZE is configuration (main.py:41); the model runs with 2-byte chunks.
ChunkSize == 2

\* max_retries of store_chunk
MaxRetries == 3

Threads == 1..NumThreads
Ids == {"u1", "u2"}
Filenames == {"f", "g", "d.jsonl", "t.CSV", "m.pt"}
Idx == 0..(MaxChunks - 1)
Bytes == {1, 2}

RECURSIVE SeqsUpTo(_)
SeqsUpTo(n) ==
    IF n = 0 THEN {<<>>}
    ELSE LET S == SeqsUpTo(n - 1)
         IN  S \cup {Append(s, b) : s \in {x \in S : Len(x) = n - 1}, b \in Bytes}

\* What a client sends as one chunk: up to chunk_size bytes.
Payloads == SeqsUpTo(ChunkSize)

\* ------------------------------------------------------------------ files
NoFile == [ex |-> FALSE, data |-> <<>>]
File(d) == [ex |-> TRUE, data |-> d]

Max(a, b) == IF a >= b THEN a ELSE b

\* write(2) of `data` at offset `off` into a file holding `old`
\* (bytes past the old end that are not written read as 0).
WriteAt(old, off, data) ==
    [i \in 1..Max(Len(old), off + Len(data)) |->
        IF i > off /\ i <= off + Len(data) THEN data[i - off]
        ELSE IF i <= Len(old) THEN old[i]
        ELSE 0]

NoSession == [filename |-> "", total_size |-> 0, total_chunks |-> 0,
              received |-> {}]

NoCall == [op |-> "none", id |-> "u1", idx |-> 0, data |-> <<>>, total |-> 0,
           name |-> <<>>, fname |-> "", size |-> -1]
NoLoc == [attempt |-> 0, fd |-> "none", ofd |-> "none", k |-> 0, off |-> 0,
          esize |-> -1, stored |-> FALSE, store |-> <<>>]
NoRet == [kind |-> "none", ok |-> FALSE, count |-> 0, msg |-> "",
          list |-> <<>>, total |-> 0]

VARIABLES
    registered,  \* keys of UploadService.sessions
    sess,        \* the UploadSession objects, by upload_id (an object outlives its registry entry)
    dirs,        \* upload ids whose directory <uploads_root>/<id> exists
    chunk,       \* chunk[id][i]: the file at <id>/<i>.chunk
    tmp,         \* tmp[id][i]: the file at <id>/<i>.chunk.tmp
    completed,   \* completed[name]: the file at <completed_root>/<name>
    pc,          \* per thread: position in the running call
    call,        \* per thread: the running (or last) call and its arguments
    loc,         \* per thread: locals of the running call
    ret,         \* per thread: what the last call returned
    faults,      \* spontaneous OS errors the environment may still raise
    ai,          \* AIIntegration: the uploads of metadata_store.json; history of the sinks run
    supplied,    \* history: payloads handed to direct store_chunk calls, per id and index
    acked,       \* history: indices acknowledged by a successful upload_chunk
    ooo,         \* history: ids that had a lower index arrive after a higher one
    committed,   \* history: the bytes last committed under <id>/<i>.chunk (cleanup keeps them)
    rep          \* history: per thread, the state before a repeated upload_chunk

vars == <<registered, sess, dirs, chunk, tmp, completed, pc, call, loc, ret,
          faults, ai, supplied, acked, ooo, committed, rep>>

fsvars == <<dirs, chunk, tmp, completed>>
memvars == <<registered, sess>>
histvars == <<supplied, acked, ooo, committed, rep>>

\* ai_integration.py:36-40: the metadata store holds {"uploads": []}; no
\* sink has run.  uploads: the ids of the store's entries, in order; doc:
\* the store file holds a JSON document; validated, notified: the uploads
\* whose content validate_dataset looked at, and those the pipelines were
\* told about.
NoSinks == [uploads |-> <<>>, doc |-> TRUE, validated |-> {}, notified |-> {}]

NoRep == [on |-> FALSE, count |-> 0, recv |-> {}, file |-> NoFile]

InitBase ==
    /\ registered = {}
    /\ sess = [u \in Ids |-> NoSession]
    /\ dirs = {}
    /\ chunk = [u \in Ids |-> [i \in Idx |-> NoFile]]
    /\ tmp = [u \in Ids |-> [i \in Idx |-> NoFile]]
    /\ completed = [n \in Filenames |-> NoFile]
    /\ pc = [t \in Threads |-> "idle"]
    /\ call = [t \in Threads |-> NoCall]
    /\ loc = [t \in Threads |-> NoLoc]
    /\ ret = [t \in Threads |-> NoRet]
    /\ supplied = [u \in Ids |-> [i \in Idx |-> {}]]
    /\ acked = [u \in Ids |-> {}]
    /\ ooo = {}
    /\ committed = [u \in Ids |-> [i \in Idx |-> <<>>]]
    /\ rep = [t \in Threads |-> NoRep]
    /\ ai = NoSinks

Init == InitBase /\ faults = 0

\* ------------------------------------------------------------ store_chunk
Id(t) == call[t].id
Ix(t) == call[t].idx

\* store_chunk returns `ok`: to its direct caller, or back into upload_chunk
\* (upload_service.py:150).
StoreEnds(t, ok, l) ==
    IF call[t].op = "store"
    THEN /\ pc' = [pc EXCEPT ![t] = "done"]
         /\ loc' = [l EXCEPT ![t] = NoLoc]
         /\ ret' = [ret EXCEPT ![t] = [NoRet EXCEPT !.kind = "store", !.ok = ok,
                                                   !.count = loc[t].attempt + 1]]
    ELSE /\ pc' = [pc EXCEPT ![t] = "uc_stored"]
         /\ loc' = [l EXCEPT ![t].stored = ok, ![t].fd = "none"]
         /\ UNCHANGED ret

\* A handler that falls through to "return True" when the retries are used up.
StoreFailedQuietly(t) ==
    IF loc[t].attempt < MaxRetries - 1
    THEN /\ loc' = [loc EXCEPT ![t].attempt = @ + 1, ![t].fd = "none"]
         /\ pc' = [pc EXCEPT ![t] = "sc_mkdir"]
         /\ UNCHANGED ret
    ELSE StoreEnds(t, TRUE, loc)

\* An except clause that retries however often it has failed.
StoreFailedAgain(t) ==
    /\ loc' = [loc EXCEPT ![t].attempt = @ + 1, ![t].fd = "none"]
    /\ pc' = [pc EXCEPT ![t] = "sc_mkdir"]
    /\ UNCHANGED ret

\* The except clause of store_chunk (storage.py:90-97): retry, or give up
\* after the third attempt.
StoreFailed(t) ==
    IF loc[t].attempt < MaxRetries - 1
    THEN /\ loc' = [loc EXCEPT ![t].attempt = @ + 1, ![t].fd = "none"]
         /\ pc' = [pc EXCEPT ![t] = "sc_mkdir"]
         /\ UNCHANGED ret
    ELSE StoreEnds(t, FALSE, loc)

\* storage.py:64-78: mkdir(parents, exist_ok), twice.
SC_Mkdir(t) ==
    /\ pc[t] = "sc_mkdir"
    /\ dirs' = dirs \cup {Id(t)}
    /\ pc' = [pc EXCEPT ![t] = "sc_open"]
    /\ UNCHANGED <<chunk, tmp, completed, memvars, call, loc, ret, faults, ai, histvars>>

\* A store that refuses a payload of no bytes.
SC_OpenRejectingEmpty(t) ==
    /\ pc[t] = "sc_open"
    /\ IF Id(t) \in dirs /\ call[t].data # <<>>
       THEN /\ tmp' = [tmp EXCEPT ![Id(t)][Ix(t)] = File(<<>>)]
            /\ loc' = [loc EXCEPT ![t].fd = "tmp"]
            /\ pc' = [pc EXCEPT ![t] = "sc_write"]
            /\ UNCHANGED ret
       ELSE /\ StoreFailed(t)
            /\ UNCHANGED tmp
    /\ UNCHANGED <<dirs, chunk, completed, memvars, call, faults, ai, histvars>>

\* storage.py:80: open(temp_path, 'wb') creates the temp file or truncates
\* the one that is there; without the directory it raises FileNotFoundError.
SC_Open(t) ==
    /\ pc[t] = "sc_open"
    /\ IF Id(t) \in dirs
       THEN /\ tmp' = [tmp EXCEPT ![Id(t)][Ix(t)] = File(<<>>)]
            /\ loc' = [loc EXCEPT ![t].fd = "tmp"]
            /\ pc' = [pc EXCEPT ![t] = "sc_write"]
            /\ UNCHANGED ret
       ELSE /\ StoreFailed(t)
            /\ UNCHANGED tmp
    /\ UNCHANGED <<dirs, chunk, completed, memvars, call, faults, ai, histvars>>

\* storage.py:81 and the close of the with block: the bytes go to the inode
\* the descriptor holds, wherever its name is by now.
SC_Write(t) ==
    /\ pc[t] = "sc_write"
    /\ tmp' = IF loc[t].fd = "tmp"
              THEN [tmp EXCEPT ![Id(t)][Ix(t)].data = WriteAt(@, 0, call[t].data)]
              ELSE tmp
    /\ chunk' = IF loc[t].fd = "chunk"
                THEN [chunk EXCEPT ![Id(t)][Ix(t)].data = WriteAt(@, 0, call[t].data)]
                ELSE chunk
    /\ committed' = IF loc[t].fd = "chunk"
                    THEN [committed EXCEPT ![Id(t)][Ix(t)] = chunk'[Id(t)][Ix(t)].data]
                    ELSE committed
    /\ loc' = [loc EXCEPT ![t].fd = "none"]
    /\ pc' = [pc EXCEPT ![t] = "sc_mkdir2"]
    /\ UNCHANGED <<dirs, completed, memvars, call, ret, faults, ai, supplied, acked, ooo, rep>>

\* storage.py:84-85
SC_Mkdir2(t) ==
    /\ pc[t] = "sc_mkdir2"
    /\ dirs' = dirs \cup {Id(t)}
    /\ pc' = [pc EXCEPT ![t] = "sc_rename"]
    /\ UNCHANGED <<chunk, tmp, completed, memvars, call, loc, ret, faults, ai, histvars>>

\* Descriptors other threads hold on the two names of (id, i) after the temp
\* file was renamed over the committed name.
AfterRename(t, l) ==
    [u \in Threads |->
        IF u # t /\ call[u].id = Id(t) /\ call[u].idx = Ix(t)
        THEN [l[u] EXCEPT !.fd = CASE @ = "tmp" -> "chunk"
                                   [] @ = "chunk" -> "orphan"
                                   [] OTHER -> @]
        ELSE l[u]]

\* storage.py:88-89: temp_path.replace(chunk_path); return True.
SC_Rename(t) ==
    /\ pc[t] = "sc_rename"
    /\ IF tmp[Id(t)][Ix(t)].ex
       THEN /\ chunk' = [chunk EXCEPT ![Id(t)][Ix(t)] = tmp[Id(t)][Ix(t)]]
            /\ tmp' = [tmp EXCEPT ![Id(t)][Ix(t)] = NoFile]
            /\ committed' = [committed EXCEPT ![Id(t)][Ix(t)] = tmp[Id(t)][Ix(t)].data]
            /\ StoreEnds(t, TRUE, AfterRename(t, loc))
       ELSE /\ StoreFailed(t)
            /\ UNCHANGED <<chunk, tmp, committed>>
    /\ UNCHANGED <<dirs, completed, memvars, call, faults, ai, supplied, acked, ooo, rep>>

\* An OSError the environment raises at open, write or rename (disk full,
\* I/O error): the call fails where it stands and leaves the files as they are.
SC_Fault(t) ==
    /\ pc[t] \in {"sc_open", "sc_write", "sc_rename"}
    /\ faults > 0
    /\ faults' = faults - 1
    /\ UNCHANGED ai
    /\ StoreFailed(t)
    /\ UNCHANGED <<fsvars, memvars, call, histvars>>

\* Threads are interchangeable: they take up work in the order of their numbers.
MayStart(t) ==
    /\ pc[t] = "idle"
    /\ \A u \in Threads : u < t => pc[u] # "idle"

Free(t) == pc[t] \in {"idle", "done"}

\* A direct caller of Storage.store_chunk.
StoreCall(t, u, i, d) ==
    /\ MayStart(t)
    /\ call' = [call EXCEPT ![t] = [op |-> "store", id |-> u, idx |-> i,
                                    data |-> d, total |-> 0, name |-> <<>>,
                                    fname |-> "", size |-> -1]]
    /\ loc' = [loc EXCEPT ![t] = NoLoc]
    /\ ret' = [ret EXCEPT ![t] = NoRet]
    /\ pc' = [pc EXCEPT ![t] = "sc_mkdir"]
    /\ supplied' = [supplied EXCEPT ![u][i] = @ \cup {d}]
    /\ UNCHANGED <<fsvars, memvars, faults, ai, acked, ooo, committed, rep>>

StoreSteps(t) ==
    \/ SC_Mkdir(t)
    \/ SC_Open(t)
    \/ SC_Write(t)
    \/ SC_Mkdir2(t)
    \/ SC_Rename(t)

\* ------------------------------------------------------------ list_chunks
RECURSIVE SortedSeq(_)
SortedSeq(S) ==
    IF S = {} THEN <<>>
    ELSE LET m == CHOOSE x \in S : \A y \in S : x <= y
         IN  <<m>> \o SortedSeq(S \ {m})

Range(q) == {q[i] : i \in 1..Len(q)}

\* A listing left in the order the directory yields it (here: descending).
ListChunksUnsorted(u) ==
    IF u \notin dirs THEN <<>>
    ELSE LET q == SortedSeq({i \in Idx : chunk[u][i].ex})
         IN  [k \in 1..Len(q) |-> q[Len(q) + 1 - k]]

\* storage.py:139-161: the indices of the <int>.chunk files of the directory
\* (the glob "*.chunk" does not match <i>.chunk.tmp), sorted.
ListChunks(u) ==
    IF u \notin dirs THEN <<>>
    ELSE SortedSeq({i \in Idx : chunk[u][i].ex})

\* ------------------------------------------------------------ init_upload
\* uuid.uuid4(): an id no session ever had.
FreshIds == {u \in Ids : sess[u] = NoSession}
NextId == CHOOSE u \in FreshIds : \A v \in FreshIds : u = "u1" \/ v # "u1"

\* Rounding the chunk count down instead of up.
TotalChunksFloor(size) == size \div ChunkSize

\* upload_service.py:62
TotalChunks(size) == (size + ChunkSize - 1) \div ChunkSize

\* upload_service.py:51-74
InitUpload(t, fn, size) ==
    /\ Free(t)
    /\ FreshIds # {}
    /\ sess' = [sess EXCEPT ![NextId] = [filename |-> fn, total_size |-> size,
                                         total_chunks |-> TotalChunks(size),
                                         received |-> {}]]
    /\ registered' = registered \cup {NextId}
    /\ call' = [call EXCEPT ![t] = [NoCall EXCEPT !.op = "init", !.id = NextId]]
    /\ loc' = [loc EXCEPT ![t] = NoLoc]
    /\ ret' = [ret EXCEPT ![t] = [NoRet EXCEPT !.kind = "init", !.ok = TRUE,
                                              !.msg = NextId, !.total = ChunkSize]]
    /\ pc' = [pc EXCEPT ![t] = "done"]
    /\ rep' = [rep EXCEPT ![t] = NoRep]
    /\ UNCHANGED <<fsvars, faults, ai, supplied, acked, ooo, committed>>

\* ----------------------------------------------------------- upload_chunk
UploadRet(ok, n, m) == [NoRet EXCEPT !.kind = "upload", !.ok = ok, !.count = n, !.msg = m]

\* A success branch that forgets to record the index.
SkipReceived(s, i) == s

\* An assignment where the add should be.
ReplaceReceived(s, i) == [s EXCEPT !.received = {i}]

\* UploadSession.received_chunks.add(i)
AddReceived(s, i) == [s EXCEPT !.received = @ \cup {i}]

\* The history a successful upload_chunk leaves: index i of u acknowledged.
Acknowledge(u, i) ==
    /\ acked' = [acked EXCEPT ![u] = @ \cup {i}]
    /\ ooo' = IF i \notin sess[u].received /\ \E j \in sess[u].received : j > i
              THEN ooo \cup {u} ELSE ooo

\* A lookup that rebuilds a session from the chunks found on disk.
ReconstructFromStorage(u) ==
    IF u \in registered THEN sess[u]
    ELSE IF ListChunks(u) # <<>>
    THEN [filename |-> "f", total_size |-> Len(ListChunks(u)) * ChunkSize,
          total_chunks |-> MaxChunks, received |-> Range(ListChunks(u))]
    ELSE NoSession

\* upload_service.py:76-103: get_session, then
\* get_or_create_session_from_storage, which lists the chunks on disk and
\* returns None whatever it finds.
GetOrCreateSessionFromStorage(u) ==
    IF u \in registered THEN sess[u]
    ELSE IF ListChunks(u) # <<>> THEN NoSession
    ELSE NoSession

\* An index test that lets total_chunks itself through.
InvalidIndexLax(s, i) == i < 0 \/ i > s.total_chunks

\* upload_service.py:133
InvalidIndex(s, i) == i < 0 \/ i >= s.total_chunks

\* An upload_chunk that tests the claimed total before the index range.
UploadChunkTotalFirst(t, u, i, d, n) ==
    /\ Free(t)
    /\ call' = [call EXCEPT ![t] = [op |-> "upload", id |-> u, idx |-> i,
                                    data |-> d, total |-> n, name |-> <<>>,
                                    fname |-> "", size |-> -1]]
    /\ loc' = [loc EXCEPT ![t] = NoLoc]
    /\ rep' = [rep EXCEPT ![t] = NoRep]
    /\ LET s == GetOrCreateSessionFromStorage(u)
       IN  IF s = NoSession
           THEN /\ ret' = [ret EXCEPT ![t] = UploadRet(FALSE, 0, "not found")]
                /\ pc' = [pc EXCEPT ![t] = "done"]
           ELSE IF n # s.total_chunks
           THEN /\ ret' = [ret EXCEPT ![t] =
                             UploadRet(FALSE, Cardinality(s.received), "total mismatch")]
                /\ pc' = [pc EXCEPT ![t] = "done"]
           ELSE IF InvalidIndex(s, i)
           THEN /\ ret' = [ret EXCEPT ![t] =
                             UploadRet(FALSE, Cardinality(s.received), "invalid index")]
                /\ pc' = [pc EXCEPT ![t] = "done"]
           ELSE /\ ret' = [ret EXCEPT ![t] = NoRet]
                /\ pc' = [pc EXCEPT ![t] = "uc_exists"]
    /\ UNCHANGED <<fsvars, memvars, faults, ai, supplied, acked, ooo, committed>>

\* upload_service.py:125-138: session lookup, index range, claimed total.
UploadChunk(t, u, i, d, n) ==
    /\ Free(t)
    /\ call' = [call EXCEPT ![t] = [op |-> "upload", id |-> u, idx |-> i,
                                    data |-> d, total |-> n, name |-> <<>>,
                                    fname |-> "", size |-> -1]]
    /\ loc' = [loc EXCEPT ![t] = NoLoc]
    /\ rep' = [rep EXCEPT ![t] =
                 IF /\ pc[t] = "done" /\ ret[t].kind = "upload" /\ ret[t].ok
                    /\ call[t] = [op |-> "upload", id |-> u, idx |-> i,
                                  data |-> d, total |-> n, name |-> <<>>,
                                    fname |-> "", size |-> -1]
                 THEN [on |-> TRUE, count |-> ret[t].count,
                       recv |-> sess[u].received, file |-> chunk[u][i]]
                 ELSE NoRep]
    /\ LET s == GetOrCreateSessionFromStorage(u)
       IN  IF s = NoSession
           THEN /\ ret' = [ret EXCEPT ![t] = UploadRet(FALSE, 0, "not found")]
                /\ pc' = [pc EXCEPT ![t] = "done"]
           ELSE IF InvalidIndex(s, i)
           THEN /\ ret' = [ret EXCEPT ![t] =
                             UploadRet(FALSE, Cardinality(s.received), "invalid index")]
                /\ pc' = [pc EXCEPT ![t] = "done"]
           ELSE IF n # s.total_chunks
           THEN /\ ret' = [ret EXCEPT ![t] =
                             UploadRet(FALSE, Cardinality(s.received), "total mismatch")]
                /\ pc' = [pc EXCEPT ![t] = "done"]
           ELSE /\ ret' = [ret EXCEPT ![t] = NoRet]
                /\ pc' = [pc EXCEPT ![t] = "uc_exists"]
    /\ UNCHANGED <<fsvars, memvars, faults, ai, supplied, acked, ooo, committed>>

\* The call goes on to store_chunk (upload_service.py:150).
ToStore(t) == pc' = [pc EXCEPT ![t] = "sc_mkdir"]

\* upload_service.py:141, storage.py:104-107: chunk_exists makes the
\* directory (get_chunk_path) and looks for the committed file.
UC_Exists(t) ==
    /\ pc[t] = "uc_exists"
    /\ dirs' = dirs \cup {Id(t)}
    /\ IF chunk[Id(t)][Ix(t)].ex
       THEN pc' = [pc EXCEPT ![t] = "uc_size"]
       ELSE ToStore(t)
    /\ UNCHANGED <<chunk, tmp, completed, memvars, call, loc, ret, faults, ai, histvars>>

\* A shortcut that takes any committed chunk for a duplicate, whatever its
\* length.
UC_SizeIgnored(t) ==
    /\ pc[t] = "uc_size"
    /\ dirs' = dirs \cup {Id(t)}
    /\ IF chunk[Id(t)][Ix(t)].ex
       THEN pc' = [pc EXCEPT ![t] = "uc_mark"]
       ELSE ToStore(t)
    /\ UNCHANGED <<chunk, tmp, completed, memvars, call, loc, ret, faults, ai, histvars>>

\* upload_service.py:142-143, storage.py:132-137: get_chunk_size and the
\* comparison with len(chunk_data).
UC_Size(t) ==
    /\ pc[t] = "uc_size"
    /\ dirs' = dirs \cup {Id(t)}
    /\ IF chunk[Id(t)][Ix(t)].ex /\ Len(chunk[Id(t)][Ix(t)].data) = Len(call[t].data)
       THEN pc' = [pc EXCEPT ![t] = "uc_mark"]
       ELSE ToStore(t)
    /\ UNCHANGED <<chunk, tmp, completed, memvars, call, loc, ret, faults, ai, histvars>>

\* A shortcut that answers a duplicate as a conflict.
IdempotentConflict(n) == UploadRet(FALSE, n, "already uploaded")

\* upload_service.py:147
IdempotentRet(n) == UploadRet(TRUE, n, "already uploaded")

\* upload_service.py:145-147: the idempotency shortcut.
UC_Mark(t) ==
    /\ pc[t] = "uc_mark"
    /\ sess' = [sess EXCEPT ![Id(t)] = AddReceived(@, Ix(t))]
    /\ ret' = [ret EXCEPT ![t] = IdempotentRet(Cardinality(sess'[Id(t)].received))]
    /\ Acknowledge(Id(t), Ix(t))
    /\ pc' = [pc EXCEPT ![t] = "done"]
    /\ UNCHANGED <<fsvars, registered, call, loc, faults, ai, supplied, committed, rep>>

\* A failure branch that records the index all the same.
MarkOnFailure(s, i) == [s EXCEPT !.received = @ \cup {i}]

\* upload_service.py:154-155: the failure branch returns without touching
\* the session.
OnStoreFailure(s, i) == s

\* upload_service.py:151-155: after store_chunk.
UC_Stored(t) ==
    /\ pc[t] = "uc_stored"
    /\ IF loc[t].stored
       THEN /\ sess' = [sess EXCEPT ![Id(t)] = AddReceived(@, Ix(t))]
            /\ ret' = [ret EXCEPT ![t] =
                         UploadRet(TRUE, Cardinality(sess'[Id(t)].received), "uploaded")]
            /\ Acknowledge(Id(t), Ix(t))
       ELSE /\ sess' = [sess EXCEPT ![Id(t)] = OnStoreFailure(@, Ix(t))]
            /\ ret' = [ret EXCEPT ![t] =
                         UploadRet(FALSE, Cardinality(sess'[Id(t)].received), "store failed")]
            /\ UNCHANGED <<acked, ooo>>
    /\ loc' = [loc EXCEPT ![t] = NoLoc]
    /\ pc' = [pc EXCEPT ![t] = "done"]
    /\ UNCHANGED <<fsvars, registered, call, faults, ai, supplied, committed, rep>>

UploadSteps(t) ==
    \/ UC_Exists(t)
    \/ UC_Size(t)
    \/ UC_Mark(t)
    \/ UC_Stored(t)

\* A completeness test satisfied by the first chunk.
IsCompleteNonEmpty(s) == s.received # {}

\* A completeness test no session passes.
IsCompleteStrict(s) == Cardinality(s.received) > s.total_chunks

\* ------------------------------------------------------ get_upload_status
\* UploadSession.is_complete (upload_service.py:26-28)
IsComplete(s) == Cardinality(s.received) = s.total_chunks

\* A missing list that names every index of the session.
MissingChunksAll(s) == SortedSeq(0..(s.total_chunks - 1))

\* UploadSession.get_missing_chunks (upload_service.py:30-33)
MissingChunks(s) == SortedSeq((0..(s.total_chunks - 1)) \ s.received)

\* upload_service.py:167-188: the dict get_upload_status returns (kind
\* "status"), the partial one built from the chunks on disk (kind "partial",
\* total -1 for None), or None (kind "absent").
StatusOf(u) ==
    IF u \in registered
    THEN [NoRet EXCEPT !.kind = "status", !.ok = IsComplete(sess[u]),
                       !.total = sess[u].total_chunks,
                       !.list = SortedSeq(sess[u].received)]
    ELSE IF ListChunks(u) = <<>>
    THEN [NoRet EXCEPT !.kind = "absent"]
    ELSE [NoRet EXCEPT !.kind = "partial", !.ok = FALSE, !.total = -1,
                       !.list = ListChunks(u)]

\* storage.py:36-45: get_chunk_path makes the upload directory before it
\* returns the path of the chunk.
GetChunkPath(u) == dirs \cup {u}

\* A direct caller of one of Storage's queries: the call runs to its return.
Query(t, op, u, i, r) ==
    /\ Free(t)
    /\ call' = [call EXCEPT ![t] = [NoCall EXCEPT !.op = op, !.id = u, !.idx = i]]
    /\ loc' = [loc EXCEPT ![t] = NoLoc]
    /\ ret' = [ret EXCEPT ![t] = r]
    /\ pc' = [pc EXCEPT ![t] = "done"]
    /\ rep' = [rep EXCEPT ![t] = NoRep]
    /\ UNCHANGED <<chunk, tmp, completed, memvars, faults, ai, supplied, acked, ooo,
                   committed>>

\* storage.py:104-107
ChunkExists(t, u, i) ==
    /\ dirs' = GetChunkPath(u)
    /\ Query(t, "chunk_exists", u, i,
             [NoRet EXCEPT !.kind = "bool", !.ok = chunk[u][i].ex])

\* storage.py:109-130: the bytes of the chunk, or None (ok FALSE) when there
\* is no such file.
GetChunk(t, u, i) ==
    /\ dirs' = GetChunkPath(u)
    /\ Query(t, "get_chunk", u, i,
             IF chunk[u][i].ex
             THEN [NoRet EXCEPT !.kind = "bytes", !.ok = TRUE, !.list = chunk[u][i].data]
             ELSE [NoRet EXCEPT !.kind = "bytes"])

\* storage.py:132-137: st_size of the chunk, or None (ok FALSE).
GetChunkSize(t, u, i) ==
    /\ dirs' = GetChunkPath(u)
    /\ Query(t, "get_chunk_size", u, i,
             IF chunk[u][i].ex
             THEN [NoRet EXCEPT !.kind = "size", !.ok = TRUE,
                                !.count = Len(chunk[u][i].data)]
             ELSE [NoRet EXCEPT !.kind = "size"])

\* storage.py:139-161: list_chunks builds the directory's path itself and
\* returns [] when the directory is missing.
ListChunksCall(t, u) ==
    /\ dirs' = dirs
    /\ Query(t, "list_chunks", u, 0,
             [NoRet EXCEPT !.kind = "list", !.ok = TRUE, !.list = ListChunks(u)])

\* upload_service.py:157-188
GetUploadStatus(t, u) ==
    /\ Free(t)
    /\ call' = [call EXCEPT ![t] = [NoCall EXCEPT !.op = "status", !.id = u]]
    /\ loc' = [loc EXCEPT ![t] = NoLoc]
    /\ ret' = [ret EXCEPT ![t] = StatusOf(u)]
    /\ pc' = [pc EXCEPT ![t] = "done"]
    /\ rep' = [rep EXCEPT ![t] = NoRep]
    /\ UNCHANGED <<fsvars, memvars, faults, ai, supplied, acked, ooo, committed>>

\* An estimate that counts the chunks instead of taking the highest index.
CountIndex(q) == Len(q) - 1

\* max(received_chunks) (main.py:137)
MaxIndex(q) == CHOOSE x \in Range(q) : \A y \in Range(q) : y <= x

\* main.py:128-152: the response of GET /api/upload/status/{upload_id} to
\* what the service returned: 404 for None, the inferred total for a
\* partial status, the session's own values otherwise.
StatusResponse(r) ==
    IF r.kind = "absent" THEN [NoRet EXCEPT !.kind = "404"]
    ELSE IF r.total = -1
    THEN IF r.list # <<>>
         THEN [NoRet EXCEPT !.kind = "200", !.total = MaxIndex(r.list) + 1,
                            !.list = r.list,
                            !.ok = (Len(r.list) = MaxIndex(r.list) + 1)]
         ELSE [NoRet EXCEPT !.kind = "404"]
    ELSE [NoRet EXCEPT !.kind = "200", !.total = r.total, !.list = r.list, !.ok = r.ok]

\* main.py:119-156
HttpGetUploadStatus(t, u) ==
    /\ Free(t)
    /\ call' = [call EXCEPT ![t] = [NoCall EXCEPT !.op = "http_status", !.id = u]]
    /\ loc' = [loc EXCEPT ![t] = NoLoc]
    /\ ret' = [ret EXCEPT ![t] = StatusResponse(StatusOf(u))]
    /\ pc' = [pc EXCEPT ![t] = "done"]
    /\ rep' = [rep EXCEPT ![t] = NoRep]
    /\ UNCHANGED <<fsvars, memvars, faults, ai, supplied, acked, ooo, committed>>

\* ------------------------------------------------------ _detect_file_type
\* A filename is modelled by filename.split('.'): the texts between its
\* dots.  Split gives it for the names sessions are created with.
Split(fn) ==
    CASE fn = "d.jsonl" -> <<"d", "jsonl">>
      [] fn = "t.CSV" -> <<"t", "CSV">>
      [] fn = "m.pt" -> <<"m", "pt">>
      [] OTHER -> <<fn>>

\* str.lower() on the texts used here.
Lower(p) ==
    CASE p = "CSV" -> "csv"
      [] p = "Json" -> "json"
      [] p = "PT" -> "pt"
      [] p = "Zip" -> "zip"
      [] OTHER -> p

DatasetExtensions == {"jsonl", "json", "csv", "parquet", "tsv", "txt"}
ModelExtensions == {"pt", "pth", "ckpt", "safetensors", "onnx", "pb", "h5"}
ArchiveExtensions == {"zip", "tar", "gz", "bz2"}

\* An extension taken as written, without lower().
ExtensionAsWritten(parts) == IF Len(parts) >= 2 THEN parts[Len(parts)] ELSE ""

\* upload_service.py:245: the text after the last dot, lower-cased; '' when
\* the name has no dot.
Extension(parts) == IF Len(parts) >= 2 THEN Lower(parts[Len(parts)]) ELSE ""

\* upload_service.py:243-259
DetectFileType(parts) ==
    IF Extension(parts) \in DatasetExtensions THEN "dataset"
    ELSE IF Extension(parts) \in ModelExtensions THEN "model_artifact"
    ELSE IF Extension(parts) \in ArchiveExtensions THEN "archive"
    ELSE "unknown"

\* A direct caller of _detect_file_type (test_upload_service.py:207-212).
DetectFileTypeCall(t, parts) ==
    /\ Free(t)
    /\ call' = [call EXCEPT ![t] = [NoCall EXCEPT !.op = "detect", !.name = parts]]
    /\ loc' = [loc EXCEPT ![t] = NoLoc]
    /\ ret' = [ret EXCEPT ![t] = [NoRet EXCEPT !.kind = "type", !.ok = TRUE,
                                              !.msg = DetectFileType(parts)]]
    /\ pc' = [pc EXCEPT ![t] = "done"]
    /\ UNCHANGED <<fsvars, memvars, faults, ai, histvars>>

\* -------------------------------------------------------- complete_upload
\* The arguments of reassemble_file: from its direct caller, or from the
\* session complete_upload passes on (upload_service.py:209-214).
Fn(t) == IF call[t].op = "reassemble" THEN call[t].fname ELSE sess[Id(t)].filename
ReTotal(t) == IF call[t].op = "reassemble" THEN call[t].total ELSE sess[Id(t)].total_chunks
ReExpected(t) == IF call[t].op = "reassemble" THEN call[t].size ELSE sess[Id(t)].total_size

\* A reassembly that walks the chunks from the last index down.
ChunkOrderDescending(n, k) == n - 1 - k

\* range(total_chunks) of the reassembly loop (storage.py:196): the k-th
\* chunk read, k = 0, 1, ...
ChunkOrder(n, k) == k

\* Descriptors on the completed file `name` after its name was unlinked.
AfterUnlink(t, name, l) ==
    [u \in Threads |->
        IF u # t /\ call[u].op \in {"complete", "reassemble"} /\ Fn(u) = name
           /\ l[u].ofd = "file"
        THEN [l[u] EXCEPT !.ofd = "orphan"]
        ELSE l[u]]

CompleteRet(ok) == [NoRet EXCEPT !.kind = "complete", !.ok = ok]

\* upload_service.py:200-207: no session -> None; incomplete -> ValueError
\* naming the missing indices.
CompleteUpload(t, u) ==
    /\ Free(t)
    /\ call' = [call EXCEPT ![t] = [NoCall EXCEPT !.op = "complete", !.id = u]]
    /\ loc' = [loc EXCEPT ![t] = NoLoc]
    /\ rep' = [rep EXCEPT ![t] = NoRep]
    /\ IF u \notin registered
       THEN /\ ret' = [ret EXCEPT ![t] = CompleteRet(FALSE)]
            /\ pc' = [pc EXCEPT ![t] = "done"]
       ELSE IF ~IsComplete(sess[u])
       THEN /\ ret' = [ret EXCEPT ![t] = [NoRet EXCEPT !.kind = "incomplete",
                                                    !.list = MissingChunks(sess[u])]]
            /\ pc' = [pc EXCEPT ![t] = "done"]
       ELSE /\ ret' = [ret EXCEPT ![t] = NoRet]
            /\ pc' = [pc EXCEPT ![t] = "re_list"]
    /\ UNCHANGED <<fsvars, memvars, faults, ai, supplied, acked, ooo, committed>>

\* A direct caller of Storage.reassemble_file; a size of -1 stands for an
\* expected_size left out (None).
ReassembleFile(t, u, n, fn, size) ==
    /\ Free(t)
    /\ call' = [call EXCEPT ![t] = [NoCall EXCEPT !.op = "reassemble", !.id = u,
                                            !.total = n, !.fname = fn, !.size = size]]
    /\ loc' = [loc EXCEPT ![t] = NoLoc]
    /\ ret' = [ret EXCEPT ![t] = NoRet]
    /\ pc' = [pc EXCEPT ![t] = "re_list"]
    /\ UNCHANGED <<fsvars, memvars, faults, ai, histvars>>

\* reassemble_file returns None: to its direct caller, or to complete_upload,
\* which returns None in its turn (upload_service.py:217-218).
ReassembleFailed(t) ==
    IF call[t].op = "reassemble"
    THEN [NoRet EXCEPT !.kind = "reassemble"]
    ELSE CompleteRet(FALSE)

\* reassemble_file returns its output path (storage.py:212): to its direct
\* caller, or to complete_upload, which goes on (upload_service.py:220-235).
ReassembleEnds(t) ==
    IF call[t].op = "reassemble"
    THEN /\ ret' = [ret EXCEPT ![t] = [NoRet EXCEPT !.kind = "reassemble", !.ok = TRUE]]
         /\ pc' = [pc EXCEPT ![t] = "done"]
    ELSE /\ pc' = [pc EXCEPT ![t] = "co_cleanup"]
         /\ UNCHANGED ret

\* A check that only asks for the expected indices to be there.
RE_ListSubset(t) ==
    /\ pc[t] = "re_list"
    /\ pc' = [pc EXCEPT ![t] =
                IF (0..(ReTotal(t) - 1)) \subseteq Range(ListChunks(Id(t)))
                THEN "re_open" ELSE "re_fail"]
    /\ UNCHANGED <<fsvars, memvars, call, loc, ret, faults, ai, histvars>>

\* storage.py:186-192: the committed set must be exactly range(total_chunks).
RE_List(t) ==
    /\ pc[t] = "re_list"
    /\ pc' = [pc EXCEPT ![t] =
                IF Range(ListChunks(Id(t))) = 0..(ReTotal(t) - 1)
                THEN "re_open" ELSE "re_fail"]
    /\ UNCHANGED <<fsvars, memvars, call, loc, ret, faults, ai, histvars>>

\* storage.py:195: open(output_path, 'wb') creates or truncates the output;
\* with total_chunks = 0 the loop has nothing to read and the file is closed.
RE_Open(t) ==
    /\ pc[t] = "re_open"
    /\ completed' = [completed EXCEPT ![Fn(t)] = File(<<>>)]
    /\ loc' = [loc EXCEPT ![t].ofd = IF ReTotal(t) = 0 THEN "none" ELSE "file",
                          ![t].k = 0, ![t].off = 0]
    /\ pc' = [pc EXCEPT ![t] = IF ReTotal(t) = 0 THEN "re_check" ELSE "re_read"]
    /\ UNCHANGED <<dirs, chunk, tmp, memvars, call, ret, faults, ai, histvars>>

\* storage.py:196-201: get_chunk (which makes the directory) and the write
\* of the chunk at the descriptor's offset; a missing chunk raises.
RE_Read(t) ==
    /\ pc[t] = "re_read"
    /\ dirs' = dirs \cup {Id(t)}
    /\ LET i == ChunkOrder(ReTotal(t), loc[t].k)
           c == chunk[Id(t)][i]
       IN  IF ~c.ex
           THEN /\ pc' = [pc EXCEPT ![t] = "re_fail"]
                /\ loc' = [loc EXCEPT ![t].ofd = "none"]
                /\ UNCHANGED completed
           ELSE /\ completed' = IF loc[t].ofd = "file"
                                THEN [completed EXCEPT ![Fn(t)].data =
                                        WriteAt(@, loc[t].off, c.data)]
                                ELSE completed
                /\ IF loc[t].k + 1 = ReTotal(t)
                   THEN /\ pc' = [pc EXCEPT ![t] = "re_check"]
                        /\ loc' = [loc EXCEPT ![t].ofd = "none", ![t].k = 0, ![t].off = 0]
                   ELSE /\ pc' = pc
                        /\ loc' = [loc EXCEPT ![t].k = @ + 1, ![t].off = @ + Len(c.data)]
    /\ UNCHANGED <<chunk, tmp, memvars, call, ret, faults, ai, histvars>>

\* A reassembly that skips the size validation.
SizeUnchecked(actual, expected) == TRUE

\* storage.py:206
SizeMatches(actual, expected) == actual = expected

\* A size check that throws the staged chunks away with the rejected output.
RE_CheckCleaning(t) ==
    /\ pc[t] = "re_check"
    /\ IF \/ ReExpected(t) = -1
          \/ /\ completed[Fn(t)].ex
             /\ SizeMatches(Len(completed[Fn(t)].data), ReExpected(t))
       THEN /\ ReassembleEnds(t)
            /\ UNCHANGED <<completed, loc, chunk>>
       ELSE /\ completed' = [completed EXCEPT ![Fn(t)] = NoFile]
            /\ chunk' = [chunk EXCEPT ![Id(t)] = [i \in Idx |-> NoFile]]
            /\ loc' = AfterUnlink(t, Fn(t), loc)
            /\ ret' = [ret EXCEPT ![t] = ReassembleFailed(t)]
            /\ pc' = [pc EXCEPT ![t] = "done"]
    /\ UNCHANGED <<dirs, tmp, memvars, call, faults, ai, histvars>>

\* A size check after which the session is dropped from the registry when
\* the output is rejected.
RE_CheckForgetting(t) ==
    /\ pc[t] = "re_check"
    /\ IF \/ ReExpected(t) = -1
          \/ /\ completed[Fn(t)].ex
             /\ SizeMatches(Len(completed[Fn(t)].data), ReExpected(t))
       THEN /\ ReassembleEnds(t)
            /\ UNCHANGED <<completed, loc, registered>>
       ELSE /\ completed' = [completed EXCEPT ![Fn(t)] = NoFile]
            /\ registered' = registered \ {Id(t)}
            /\ loc' = AfterUnlink(t, Fn(t), loc)
            /\ ret' = [ret EXCEPT ![t] = ReassembleFailed(t)]
            /\ pc' = [pc EXCEPT ![t] = "done"]
    /\ UNCHANGED <<dirs, chunk, tmp, sess, call, faults, ai, histvars>>

\* storage.py:204-212: unless expected_size is None, stat of the output path
\* against expected_size; on a mismatch the output is unlinked.  A path that is gone raises, and the
\* except clause (213-217) finds nothing to unlink.
RE_Check(t) ==
    /\ pc[t] = "re_check"
    /\ IF \/ ReExpected(t) = -1
          \/ /\ completed[Fn(t)].ex
             /\ SizeMatches(Len(completed[Fn(t)].data), ReExpected(t))
       THEN /\ ReassembleEnds(t)
            /\ UNCHANGED <<completed, loc>>
       ELSE /\ completed' = [completed EXCEPT ![Fn(t)] = NoFile]
            /\ loc' = AfterUnlink(t, Fn(t), loc)
            /\ ret' = [ret EXCEPT ![t] = ReassembleFailed(t)]
            /\ pc' = [pc EXCEPT ![t] = "done"]
    /\ UNCHANGED <<dirs, chunk, tmp, memvars, call, faults, ai, histvars>>

\* storage.py:213-217 and upload_service.py:217-218: the except clause
\* unlinks whatever is at the output path; complete_upload returns None.
RE_Fail(t) ==
    /\ pc[t] = "re_fail"
    /\ completed' = [completed EXCEPT ![Fn(t)] = NoFile]
    /\ loc' = AfterUnlink(t, Fn(t), loc)
    /\ ret' = [ret EXCEPT ![t] = ReassembleFailed(t)]
    /\ pc' = [pc EXCEPT ![t] = "done"]
    /\ UNCHANGED <<dirs, chunk, tmp, memvars, call, faults, ai, histvars>>

\* Descriptors on the temp files of upload u after the files were unlinked.
AfterRmtree(u, l) ==
    [v \in Threads |->
        IF call[v].id = u /\ l[v].fd \in {"tmp", "chunk"}
        THEN [l[v] EXCEPT !.fd = "orphan"]
        ELSE l[v]]

\* upload_service.py:235, storage.py:229-232: shutil.rmtree unlinks the
\* entries of the directory ...
CO_Cleanup(t) ==
    /\ pc[t] = "co_cleanup"
    /\ IF Id(t) \in dirs
       THEN /\ chunk' = [chunk EXCEPT ![Id(t)] = [i \in Idx |-> NoFile]]
            /\ tmp' = [tmp EXCEPT ![Id(t)] = [i \in Idx |-> NoFile]]
            /\ loc' = AfterRmtree(Id(t), loc)
            /\ pc' = [pc EXCEPT ![t] = "co_rmdir"]
       ELSE /\ pc' = [pc EXCEPT ![t] = "co_del"]
            /\ UNCHANGED <<chunk, tmp, loc>>
    /\ UNCHANGED <<dirs, completed, memvars, call, ret, faults, ai, histvars>>

\* ... and then removes the directory itself, which fails (the error is
\* swallowed, storage.py:234-236) when a file was created in it meanwhile.
CO_Rmdir(t) ==
    /\ pc[t] = "co_rmdir"
    /\ dirs' = IF \A i \in Idx : ~chunk[Id(t)][i].ex /\ ~tmp[Id(t)][i].ex
               THEN dirs \ {Id(t)} ELSE dirs
    /\ pc' = [pc EXCEPT ![t] = "co_del"]
    /\ UNCHANGED <<chunk, tmp, completed, memvars, call, loc, ret, faults, ai, histvars>>

\* A completion that empties the registry instead of deleting its own entry.
CO_DelAll(t) ==
    /\ pc[t] = "co_del"
    /\ registered' = {}
    /\ ret' = [ret EXCEPT ![t] = CompleteRet(TRUE)]
    /\ pc' = [pc EXCEPT ![t] = "done"]
    /\ UNCHANGED <<fsvars, sess, call, loc, faults, ai, histvars>>

\* upload_service.py:238-241: del self.sessions[upload_id]; return.
CO_Del(t) ==
    /\ pc[t] = "co_del"
    /\ registered' = registered \ {Id(t)}
    /\ ret' = [ret EXCEPT ![t] = CompleteRet(TRUE)]
    /\ pc' = [pc EXCEPT ![t] = "done"]
    /\ UNCHANGED <<fsvars, sess, call, loc, faults, ai, histvars>>

CompleteSteps(t) ==
    \/ RE_List(t)
    \/ RE_Open(t)
    \/ RE_Read(t)
    \/ RE_Check(t)
    \/ RE_Fail(t)
    \/ CO_Cleanup(t)
    \/ CO_Rmdir(t)
    \/ CO_Del(t)

\* --------------------------------------------------------------- AI sinks
\* pathlib's Path.suffix without its dot, lower-cased: the text after the
\* last dot of a name that has one after its first character and does not
\* end in a dot.
PathSuffix(parts) ==
    IF /\ Len(parts) >= 2
       /\ parts[Len(parts)] # ""
       /\ \E k \in 1..(Len(parts) - 1) : parts[k] # ""
    THEN Lower(parts[Len(parts)]) ELSE ""

\* ai_integration.py:72-81: json.loads of each of the first ten lines.  The
\* bytes 1 and 2 stand for the characters '1' and '{'; no byte is a newline,
\* so a file that is not empty is one line, and it parses iff it has no '{'.
ValidJsonl(data) == \A k \in 1..Len(data) : data[k] # 2

\* ai_integration.py:42-84: the reason of the rejection, "" when accepted.
ValidateDataset(parts, file, ftype) ==
    IF ftype # "dataset" THEN ""
    ELSE IF PathSuffix(parts) \notin DatasetExtensions THEN "Invalid dataset format"
    ELSE IF PathSuffix(parts) # "jsonl" THEN ""
    ELSE IF ~file.ex THEN "Validation error"
    ELSE IF ~ValidJsonl(file.data) THEN "Invalid JSONL format"
    ELSE ""

\* ai_integration.py:86-108: a placeholder that accepts every file.
ValidateSchema(parts, file, ftype) == ""

\* ai_integration.py:182-218: a placeholder that accepts every file.
ScanFile(file) == ""

\* The response of an HTTP handler: its status code and detail.
Response(code, msg) == [NoRet EXCEPT !.kind = code, !.ok = (code = "200"), !.msg = msg]

\* A handler has yet to turn the engine's result into its response.
Pending(t) == pc[t] = "done" /\ call[t].op \in {"upload", "complete"}

\* A veto that answers 400 and leaves the file where it is.
VetoKeeping(t, reason) ==
    /\ ret' = [ret EXCEPT ![t] = Response("400", reason)]
    /\ UNCHANGED <<completed, loc>>

\* main.py:183-186, 190-192, 196-198: file_path.unlink(), then HTTP 400 with
\* the reason; the unlink of a file that is gone raises, which main.py:230
\* turns into a 500.
Veto(t, reason) ==
    IF completed[Fn(t)].ex
    THEN /\ completed' = [completed EXCEPT ![Fn(t)] = NoFile]
         /\ loc' = AfterUnlink(t, Fn(t), loc)
         /\ ret' = [ret EXCEPT ![t] = Response("400", reason)]
    ELSE /\ ret' = [ret EXCEPT ![t] = Response("500", "Failed to complete upload")]
         /\ UNCHANGED <<completed, loc>>

\* A handler that lets a rejected dataset go on to the registry.
HC_SinksNoShortCircuit(t) ==
    /\ pc[t] = "done"
    /\ call[t].op = "complete"
    /\ call' = [call EXCEPT ![t].op = "http_complete"]
    /\ IF ret[t].kind = "incomplete"
       THEN /\ ret' = [ret EXCEPT ![t] = [Response("400", "Missing chunks")
                                            EXCEPT !.list = ret[t].list]]
            /\ UNCHANGED <<completed, loc, pc, ai>>
       ELSE IF ~ret[t].ok
       THEN /\ ret' = [ret EXCEPT ![t] = Response("400", "Failed to complete upload")]
            /\ UNCHANGED <<completed, loc, pc, ai>>
       ELSE LET ftype == DetectFileType(Split(Fn(t)))
            IN  /\ ai' = IF ftype = "dataset"
                         THEN [ai EXCEPT !.validated = @ \cup {Id(t)}] ELSE ai
                /\ IF ftype = "dataset"
                   THEN /\ pc' = [pc EXCEPT ![t] = "rd_read"]
                        /\ ret' = [ret EXCEPT ![t] = NoRet]
                        /\ UNCHANGED <<completed, loc>>
                   ELSE /\ ret' = [ret EXCEPT ![t] = Response("200", "Upload completed successfully")]
                        /\ UNCHANGED <<completed, loc, pc>>
    /\ UNCHANGED <<registered, sess, dirs, chunk, tmp, faults, histvars>>

\* main.py:170-201, 226-231: the complete handler from the return of
\* upload_service.complete_upload to the registry write or the response.
\* None and ValueError become a 400; the three vetoing sinks run in order;
\* generate_metadata cannot fail (ai_integration.py:110-166); a dataset goes
\* on to register_dataset, any other type is answered at once.
HC_Sinks(t) ==
    /\ pc[t] = "done"
    /\ call[t].op = "complete"
    /\ call' = [call EXCEPT ![t].op = "http_complete"]
    /\ IF ret[t].kind = "incomplete"
       THEN /\ ret' = [ret EXCEPT ![t] = [Response("400", "Missing chunks")
                                            EXCEPT !.list = ret[t].list]]
            /\ UNCHANGED <<completed, loc, pc, ai>>
       ELSE IF ~ret[t].ok
       THEN /\ ret' = [ret EXCEPT ![t] = Response("400", "Failed to complete upload")]
            /\ UNCHANGED <<completed, loc, pc, ai>>
       ELSE LET parts == Split(Fn(t))
                ftype == DetectFileType(parts)
                file == completed[Fn(t)]
                v1 == ValidateDataset(parts, file, ftype)
                v2 == ValidateSchema(parts, file, ftype)
                v3 == ScanFile(file)
                reason == IF v1 # "" THEN v1 ELSE IF v2 # "" THEN v2 ELSE v3
            IN  /\ ai' = IF ftype = "dataset"
                         THEN [ai EXCEPT !.validated = @ \cup {Id(t)}] ELSE ai
                /\ IF reason # ""
                   THEN Veto(t, reason) /\ UNCHANGED pc
                   ELSE IF ftype = "dataset"
                   THEN /\ pc' = [pc EXCEPT ![t] = "rd_read"]
                        /\ ret' = [ret EXCEPT ![t] = NoRet]
                        /\ UNCHANGED <<completed, loc>>
                   ELSE /\ ret' = [ret EXCEPT ![t] = Response("200", "Upload completed successfully")]
                        /\ UNCHANGED <<completed, loc, pc>>
    /\ UNCHANGED <<registered, sess, dirs, chunk, tmp, faults, histvars>>

\* A direct caller of AIIntegration.register_dataset.
RegisterDataset(t, u) ==
    /\ MayStart(t)
    /\ call' = [call EXCEPT ![t] = [NoCall EXCEPT !.op = "register", !.id = u]]
    /\ loc' = [loc EXCEPT ![t] = NoLoc]
    /\ ret' = [ret EXCEPT ![t] = NoRet]
    /\ pc' = [pc EXCEPT ![t] = "rd_read"]
    /\ UNCHANGED <<fsvars, memvars, faults, ai, histvars>>

\* An exception leaving register_dataset: it reaches a direct caller as it
\* is, and the client of the complete handler as a 500 (main.py:203-204 has
\* no try of its own, main.py:230-231 catches it).
Raised(t) ==
    IF call[t].op = "register"
    THEN [NoRet EXCEPT !.kind = "raise"]
    ELSE Response("500", "Failed to complete upload")

\* ai_integration.py:231-233: json.load of the store file; a file another
\* writer has truncated and not yet written is no JSON document.
RD_Read(t) ==
    /\ pc[t] = "rd_read"
    /\ IF ai.doc
       THEN /\ loc' = [loc EXCEPT ![t].store = ai.uploads]
            /\ pc' = [pc EXCEPT ![t] = "rd_open"]
            /\ UNCHANGED ret
       ELSE /\ ret' = [ret EXCEPT ![t] = Raised(t)]
            /\ pc' = [pc EXCEPT ![t] = "done"]
            /\ UNCHANGED loc
    /\ UNCHANGED <<fsvars, memvars, call, faults, ai, histvars>>

\* ai_integration.py:244: open(..., 'w') truncates the store file.
RD_Open(t) ==
    /\ pc[t] = "rd_open"
    /\ ai' = [ai EXCEPT !.doc = FALSE]
    /\ pc' = [pc EXCEPT ![t] = "rd_write"]
    /\ UNCHANGED <<fsvars, memvars, call, loc, ret, faults, histvars>>

\* ai_integration.py:236-247: json.dump of the list that was read, with the
\* new entry appended.  In the handler (main.py:207-225) the two pipeline
\* notifications, which only print, and the 200 follow.
RD_Write(t) ==
    /\ pc[t] = "rd_write"
    /\ pc' = [pc EXCEPT ![t] = "done"]
    /\ IF call[t].op = "register"
       THEN /\ ai' = [ai EXCEPT !.uploads = Append(loc[t].store, Id(t)), !.doc = TRUE]
            /\ ret' = [ret EXCEPT ![t] = [NoRet EXCEPT !.kind = "register", !.ok = TRUE,
                                                      !.msg = Id(t)]]
       ELSE /\ ai' = [ai EXCEPT !.uploads = Append(loc[t].store, Id(t)), !.doc = TRUE,
                                !.notified = @ \cup {Id(t)}]
            /\ ret' = [ret EXCEPT ![t] = Response("200", "Upload completed successfully")]
    /\ UNCHANGED <<fsvars, memvars, call, loc, faults, histvars>>

\* An OSError the environment raises in register_dataset at the read, the
\* open or the write of the store file.
RD_Fault(t) ==
    /\ pc[t] \in {"rd_read", "rd_open", "rd_write"}
    /\ faults > 0
    /\ faults' = faults - 1
    /\ ret' = [ret EXCEPT ![t] = Raised(t)]
    /\ pc' = [pc EXCEPT ![t] = "done"]
    /\ UNCHANGED <<fsvars, memvars, call, loc, ai, histvars>>

RegisterSteps(t) ==
    \/ RD_Read(t)
    \/ RD_Open(t)
    \/ RD_Write(t)

\* A chunk handler that passes the service's result on with a 200, failed
\* or not.
HU_RespondAlways200(t) ==
    /\ pc[t] = "done"
    /\ call[t].op = "upload"
    /\ call' = [call EXCEPT ![t].op = "http_chunk"]
    /\ ret' = [ret EXCEPT ![t] = [Response("200", ret[t].msg) EXCEPT !.count = ret[t].count]]
    /\ UNCHANGED <<fsvars, memvars, pc, loc, faults, ai, histvars>>

\* main.py:105-112: the chunk handler from the return of
\* upload_service.upload_chunk: a False becomes a 400 that carries the
\* message, a True the 200 with the count.
HU_Respond(t) ==
    /\ pc[t] = "done"
    /\ call[t].op = "upload"
    /\ call' = [call EXCEPT ![t].op = "http_chunk"]
    /\ ret' = [ret EXCEPT ![t] =
                  [Response(IF ret[t].ok THEN "200" ELSE "400", ret[t].msg)
                      EXCEPT !.count = ret[t].count]]
    /\ UNCHANGED <<fsvars, memvars, pc, loc, faults, ai, histvars>>

\* A total size the request model rejects only when it is negative.
ValidInitRequestLax(size) == size >= 0

\* models.py:12: totalSize: int = Field(..., gt=0)
ValidInitRequest(size) == size > 0

\* main.py:63-77: the init handler.  A body the request model rejects is
\* answered 422 by the framework before the handler runs.
HttpInitUpload(t, fn, size) ==
    IF ValidInitRequest(size)
    THEN InitUpload(t, fn, size)
    ELSE /\ Free(t)
         /\ call' = [call EXCEPT ![t] = [NoCall EXCEPT !.op = "http_init", !.total = size]]
         /\ loc' = [loc EXCEPT ![t] = NoLoc]
         /\ ret' = [ret EXCEPT ![t] = Response("422", "totalSize")]
         /\ pc' = [pc EXCEPT ![t] = "done"]
         /\ rep' = [rep EXCEPT ![t] = NoRep]
         /\ UNCHANGED <<fsvars, memvars, faults, ai, supplied, acked, ooo, committed>>

\* --------------------------------------------------------- specifications
\* Concurrent callers of store_chunk on one (upload_id, index), one call each.
StorePayloads == {<<1>>, <<2, 2>>}

NextStore ==
    \E t \in Threads :
        \/ \E d \in StorePayloads : StoreCall(t, "u1", 0, d)
        \/ StoreSteps(t)

SpecStore == Init /\ [][NextStore]_vars

\* One client: any sequence of init, upload_chunk, status and complete on
\* one session and on an id that has none.  A call that fails validation
\* never looks at its payload, so one payload stands for all of them there.
ValidArgs(u, i, n) ==
    u \in registered /\ i < sess[u].total_chunks /\ n = sess[u].total_chunks

NextSeq ==
    \/ \E size \in 1..SeqMaxSize : sess["u1"] = NoSession /\ InitUpload(1, "f", size)
    \/ \E u \in Ids, i \in 0..MaxChunks, d \in Payloads, n \in 1..MaxChunks :
          /\ ValidArgs(u, i, n) \/ d = <<>>
          /\ UploadChunk(1, u, i, d, n)
    \/ \E u \in Ids : GetUploadStatus(1, u)
    \/ \E u \in Ids : CompleteUpload(1, u)
    \/ UploadSteps(1)
    \/ StoreSteps(1)
    \/ RE_List(1)
    \/ RE_Open(1)
    \/ RE_Read(1)
    \/ RE_Check(1)
    \/ CO_Cleanup(1)
    \/ CO_Rmdir(1)
    \/ CO_Del(1)

SpecSeq == Init /\ [][NextSeq]_vars

\* The i-th chunk a client cuts from a file of `size` bytes: chunk_size
\* bytes, the last one the rest (its bytes tell even from odd indices).
ProperChunk(size, i) ==
    LET len == IF i < TotalChunks(size) - 1 THEN ChunkSize
               ELSE size - (TotalChunks(size) - 1) * ChunkSize
    IN  [j \in 1..len |-> 1 + (i % 2)]

\* The chunks of one session uploaded concurrently, one worker per index;
\* when all have returned the client asks for the status and completes.
Workers == 1..DistinctN
Client == DistinctN + 1
DistinctSizes == ((DistinctN - 1) * ChunkSize + 1)..(DistinctN * ChunkSize)

NextDistinct ==
    \/ \E size \in DistinctSizes : sess["u1"] = NoSession /\ InitUpload(Client, "f", size)
    \/ \E t \in Workers :
          /\ pc[t] = "idle"
          /\ "u1" \in registered
          /\ UploadChunk(t, "u1", t - 1, ProperChunk(sess["u1"].total_size, t - 1),
                         sess["u1"].total_chunks)
    \/ /\ call[Client].op = "init"
       /\ \A t \in Workers : pc[t] = "done"
       /\ GetUploadStatus(Client, "u1")
    \/ /\ call[Client].op = "status"
       /\ CompleteUpload(Client, "u1")
    \/ \E t \in Workers : UC_Exists(t) \/ StoreSteps(t) \/ UC_Stored(t)
    \/ RE_List(Client)
    \/ RE_Open(Client)
    \/ RE_Read(Client)
    \/ RE_Check(Client)
    \/ CO_Cleanup(Client)
    \/ CO_Rmdir(Client)
    \/ CO_Del(Client)

SpecDistinct == Init /\ [][NextDistinct]_vars

\* One chunk uploaded by every thread at once, all with the same bytes.
SameSize == 2 * ChunkSize

NextSame ==
    \/ sess["u1"] = NoSession /\ InitUpload(1, "f", SameSize)
    \/ \E t \in Threads :
          /\ "u1" \in registered
          /\ Free(t)
          /\ call[t].op # "upload"
          /\ \A v \in Threads : v < t => call[v].op = "upload"
          /\ UploadChunk(t, "u1", 0, ProperChunk(SameSize, 0), TotalChunks(SameSize))
    \/ \E t \in Threads : UploadSteps(t) \/ StoreSteps(t)

SpecSame == Init /\ [][NextSame]_vars

\* store_chunk under a filesystem that raises errors of its own.
StoreFThreads == {1, 2}

NextStoreF ==
    \E t \in StoreFThreads :
        \/ \E d \in StorePayloads : StoreCall(t, "u1", 0, d)
        \/ StoreSteps(t)
        \/ SC_Fault(t)

InitFaulty == InitBase /\ faults = MaxFaults

SpecStoreF == InitFaulty /\ [][NextStoreF]_vars

\* A finished upload completed twice at once while a chunk is retried.
RaceSize == ChunkSize + 1
Completers == {1, 2}
Retrier == 3

NextRace ==
    \/ sess["u1"] = NoSession /\ InitUpload(1, "f", RaceSize)
    \/ \E i \in 0..(TotalChunks(RaceSize) - 1) :
          /\ "u1" \in registered
          /\ ~IsComplete(sess["u1"])
          /\ UploadChunk(1, "u1", i, ProperChunk(RaceSize, i), TotalChunks(RaceSize))
    \/ \E t \in Completers :
          /\ "u1" \in registered
          /\ IsComplete(sess["u1"])
          /\ call[t].op # "complete"
          /\ CompleteUpload(t, "u1")
    \/ \E i \in 0..(TotalChunks(RaceSize) - 1) :
          /\ "u1" \in registered
          /\ IsComplete(sess["u1"])
          /\ pc[Retrier] = "idle"
          /\ UploadChunk(Retrier, "u1", i, ProperChunk(RaceSize, i), TotalChunks(RaceSize))
    \/ \E t \in {1, Retrier} : UploadSteps(t) \/ StoreSteps(t)
    \/ \E t \in Completers : CompleteSteps(t)

SpecRace == Init /\ [][NextRace]_vars

\* A client that resumes: it asks for the status, uploads an index the
\* status reported missing (or, having just been acknowledged, one it holds
\* no acknowledgement for), and completes once the status says complete.
StatusMissing(t) == (0..(ret[t].total - 1)) \ Range(ret[t].list)

NextLive ==
    \/ \E size \in 1..SeqMaxSize : sess["u1"] = NoSession /\ InitUpload(1, "f", size)
    \/ /\ pc[1] = "done"
       /\ call[1].op \in {"init", "upload"}
       /\ GetUploadStatus(1, "u1")
    \/ \E i \in Idx :
          /\ pc[1] = "done"
          /\ \/ call[1].op = "status" /\ ret[1].kind = "status" /\ i \in StatusMissing(1)
             \/ /\ call[1].op = "upload"
                /\ i \in (0..(sess["u1"].total_chunks - 1)) \ acked["u1"]
          /\ UploadChunk(1, "u1", i, ProperChunk(sess["u1"].total_size, i),
                         sess["u1"].total_chunks)
    \/ /\ pc[1] = "done"
       /\ call[1].op = "status" /\ ret[1].kind = "status" /\ ret[1].ok
       /\ CompleteUpload(1, "u1")
    \/ UC_Exists(1)
    \/ StoreSteps(1)
    \/ UC_Stored(1)
    \/ RE_List(1)
    \/ RE_Open(1)
    \/ RE_Read(1)
    \/ RE_Check(1)
    \/ CO_Cleanup(1)
    \/ CO_Rmdir(1)
    \/ CO_Del(1)

SpecLive == Init /\ [][NextLive]_vars /\ WF_vars(NextLive)

\* One client uploading to its session, with any index and claimed total,
\* over a filesystem that may raise errors of its own.
NextSeqF ==
    \/ \E size \in 1..SeqMaxSize : sess["u1"] = NoSession /\ InitUpload(1, "f", size)
    \/ \E i \in (-1)..MaxChunks, n \in 1..MaxChunks :
          /\ "u1" \in registered
          /\ \E d \in {<<>>, ProperChunk(sess["u1"].total_size, i)} :
                /\ (i >= 0 /\ ValidArgs("u1", i, n)) \/ d = <<>>
                /\ UploadChunk(1, "u1", i, d, n)
    \/ UploadSteps(1)
    \/ StoreSteps(1)
    \/ SC_Fault(1)

SpecSeqF == InitFaulty /\ [][NextSeqF]_vars

\* A restart of the process: a new UploadService starts with an empty
\* registry (upload_service.py:49) over the directories the old one left.
Restart ==
    /\ \A t \in Threads : Free(t)
    /\ registered # {}
    /\ registered' = {}
    /\ UNCHANGED <<sess, fsvars, pc, call, loc, ret, faults, ai, histvars>>

\* The client of these runs: any call with any arguments, its payload a
\* proper chunk or an empty one.
NextResume ==
    \/ \E size \in 1..SeqMaxSize : sess["u1"] = NoSession /\ InitUpload(1, "f", size)
    \/ \E u \in Ids, i \in 0..MaxChunks, n \in 1..MaxChunks :
          \E d \in {<<>>, ProperChunk(sess[u].total_size, i)} :
             /\ ValidArgs(u, i, n) \/ d = <<>>
             /\ UploadChunk(1, u, i, d, n)
    \/ \E u \in Ids : GetUploadStatus(1, u)
    \/ \E u \in Ids : CompleteUpload(1, u)
    \/ UploadSteps(1)
    \/ StoreSteps(1)
    \/ RE_List(1)
    \/ RE_Open(1)
    \/ RE_Read(1)
    \/ RE_Check(1)
    \/ CO_Cleanup(1)
    \/ CO_Rmdir(1)
    \/ CO_Del(1)

NextRestart == NextResume \/ Restart

SpecRestart == Init /\ [][NextRestart]_vars

\* A client uploading and completing its session while a second caller
\* polls the status.
Poller == 2

NextPoll ==
    \/ \E size \in 1..SeqMaxSize : sess["u1"] = NoSession /\ InitUpload(1, "f", size)
    \/ \E i \in Idx :
          /\ "u1" \in registered
          /\ i < sess["u1"].total_chunks
          /\ UploadChunk(1, "u1", i, ProperChunk(sess["u1"].total_size, i),
                         sess["u1"].total_chunks)
    \/ "u1" \in registered /\ CompleteUpload(1, "u1")
    \/ sess["u1"] # NoSession /\ GetUploadStatus(Poller, "u1")
    \/ UploadSteps(1)
    \/ StoreSteps(1)
    \/ RE_List(1)
    \/ RE_Open(1)
    \/ RE_Read(1)
    \/ RE_Check(1)
    \/ CO_Cleanup(1)
    \/ CO_Rmdir(1)
    \/ CO_Del(1)

SpecPoll == Init /\ [][NextPoll]_vars

\* The sequential client, restarts, and the status endpoint.
NextHttp ==
    \/ NextRestart
    \/ \E u \in Ids : HttpGetUploadStatus(1, u)

SpecHttp == Init /\ [][NextHttp]_vars

\* Two uploads of files with the same name, one after the other: the first
\* client completes its session, then a second client runs its own.
Second == 2
FirstDone == pc[1] = "done" /\ call[1].op = "complete" /\ ret[1].ok

NextTwo ==
    \/ \E size \in 1..SeqMaxSize : sess["u1"] = NoSession /\ InitUpload(1, "f", size)
    \/ \E i \in Idx :
          /\ "u1" \in registered
          /\ i < sess["u1"].total_chunks
          /\ UploadChunk(1, "u1", i, ProperChunk(sess["u1"].total_size, i),
                         sess["u1"].total_chunks)
    \/ "u1" \in registered /\ IsComplete(sess["u1"]) /\ CompleteUpload(1, "u1")
    \/ \E size \in 1..SeqMaxSize :
          FirstDone /\ sess["u2"] = NoSession /\ InitUpload(Second, "f", size)
    \/ \E i \in Idx : \E d \in {<<>>, ProperChunk(sess["u2"].total_size, i)} :
          /\ "u2" \in registered
          /\ i < sess["u2"].total_chunks
          /\ UploadChunk(Second, "u2", i, d, sess["u2"].total_chunks)
    \/ "u2" \in registered /\ CompleteUpload(Second, "u2")
    \/ \E t \in {1, Second} :
          \/ UploadSteps(t)
          \/ StoreSteps(t)
          \/ RE_List(t)
          \/ RE_Open(t)
          \/ RE_Read(t)
          \/ RE_Check(t)
          \/ CO_Cleanup(t)
          \/ CO_Rmdir(t)
          \/ CO_Del(t)

SpecTwo == Init /\ [][NextTwo]_vars

\* One client of the HTTP API and its one upload: init, chunk and complete
\* requests with any arguments, each handler run to its response before the
\* next request, on a disk and a metadata store that may fail.
ApiNames == {"f", "d.jsonl", "t.CSV", "m.pt"}

NextApi ==
    \/ \E fn \in ApiNames, size \in (-1)..SeqMaxSize :
          ~Pending(1) /\ sess["u1"] = NoSession /\ HttpInitUpload(1, fn, size)
    \/ \E u \in Ids, i \in (-1)..MaxChunks, n \in 1..MaxChunks :
          \E d \in {<<>>, ProperChunk(sess[u].total_size, i)} :
             /\ ~Pending(1)
             /\ (i >= 0 /\ ValidArgs(u, i, n)) \/ d = <<>>
             /\ UploadChunk(1, u, i, d, n)
    \/ \E u \in Ids : ~Pending(1) /\ CompleteUpload(1, u)
    \/ UploadSteps(1)
    \/ StoreSteps(1)
    \/ SC_Fault(1)
    \/ HU_Respond(1)
    \/ RE_List(1)
    \/ RE_Open(1)
    \/ RE_Read(1)
    \/ RE_Check(1)
    \/ CO_Cleanup(1)
    \/ CO_Rmdir(1)
    \/ CO_Del(1)
    \/ HC_Sinks(1)
    \/ RegisterSteps(1)
    \/ RD_Fault(1)

SpecApi == InitFaulty /\ [][NextApi]_vars

\* Concurrent callers of register_dataset, one call each.
NextRegistry ==
    \E t \in Threads :
        \/ \E u \in Ids : RegisterDataset(t, u)
        \/ RegisterSteps(t)

SpecRegistry == Init /\ [][NextRegistry]_vars

\* Two clients at once, each driving an upload of its own from init to
\* complete: every chunk once, in any order, then complete.
Drivers == {1, 2}
NameOf(t) == IF t = 1 THEN "f" ELSE "g"

Drive(t) ==
    \/ \E size \in 1..SeqMaxSize : pc[t] = "idle" /\ InitUpload(t, NameOf(t), size)
    \/ \E i \in Idx :
          /\ pc[t] = "done"
          /\ Id(t) \in registered
          /\ i < sess[Id(t)].total_chunks
          /\ i \notin sess[Id(t)].received
          /\ UploadChunk(t, Id(t), i, ProperChunk(sess[Id(t)].total_size, i),
                         sess[Id(t)].total_chunks)
    \/ /\ pc[t] = "done"
       /\ Id(t) \in registered
       /\ IsComplete(sess[Id(t)])
       /\ CompleteUpload(t, Id(t))
    \/ UC_Exists(t)
    \/ StoreSteps(t)
    \/ UC_Stored(t)
    \/ RE_List(t)
    \/ RE_Open(t)
    \/ RE_Read(t)
    \/ RE_Check(t)
    \/ CO_Cleanup(t)
    \/ CO_Rmdir(t)
    \/ CO_Del(t)

NextPair == \E t \in Drivers : Drive(t)

SpecPair == Init /\ [][NextPair]_vars

\* One client that starts uploads through the init endpoint, with any total
\* size, and sends chunks of the sessions it has.
NextInit ==
    \/ \E fn \in {"f", "g"}, size \in (-1)..SeqMaxSize : HttpInitUpload(1, fn, size)
    \/ \E u \in Ids, i \in Idx :
          /\ u \in registered
          /\ i < sess[u].total_chunks
          /\ UploadChunk(1, u, i, ProperChunk(sess[u].total_size, i), sess[u].total_chunks)
    \/ UploadSteps(1)
    \/ StoreSteps(1)

SpecInit == Init /\ [][NextInit]_vars

\* The names whose type is asked for: every extension the code knows, in
\* lower and in mixed case, and some it does not know; alone (a name with no
\* dot), after one or two dots, after a leading dot and before a trailing one.
NameTexts ==
    DatasetExtensions \cup ModelExtensions \cup ArchiveExtensions
        \cup {"CSV", "Json", "PT", "Zip", "bin", "a", ""}

TypeNames ==
    {<<p>> : p \in NameTexts} \cup {<<"a", p>> : p \in NameTexts}
        \cup {<<"a", "tar", p>> : p \in NameTexts} \cup {<<"", p>> : p \in NameTexts}
        \cup {<<p, "">> : p \in NameTexts} \cup {<<"a", p, "bin">> : p \in NameTexts}

\* The client of the HTTP API, which may ask for the type of any name before
\* it starts its upload.
NextType ==
    \/ \E parts \in TypeNames : sess["u1"] = NoSession /\ DetectFileTypeCall(1, parts)
    \/ NextApi

SpecType == InitFaulty /\ [][NextType]_vars

\* One direct user of Storage: it stores chunks under any indices and calls
\* reassemble_file with any total, with or without an expected size.
ReassembleSizes == {-1} \cup (0..SeqMaxSize)

NextReassemble ==
    \/ \E i \in Idx, d \in {<<1>>, <<2, 2>>} :
          /\ Free(1)
          /\ call' = [call EXCEPT ![1] = [NoCall EXCEPT !.op = "store", !.id = "u1",
                                                 !.idx = i, !.data = d]]
          /\ loc' = [loc EXCEPT ![1] = NoLoc]
          /\ ret' = [ret EXCEPT ![1] = NoRet]
          /\ pc' = [pc EXCEPT ![1] = "sc_mkdir"]
          /\ UNCHANGED <<fsvars, memvars, faults, ai, histvars>>
    \/ \E u \in Ids, n \in 0..MaxChunks, size \in ReassembleSizes :
          ReassembleFile(1, u, n, "f", size)
    \/ StoreSteps(1)
    \/ RE_List(1)
    \/ RE_Open(1)
    \/ RE_Read(1)
    \/ RE_Check(1)
    \/ RE_Fail(1)

SpecReassemble == Init /\ [][NextReassemble]_vars

\* The same callers on the same disk, each step taken as soon as it can be:
\* a call that has started runs on to its return.
SpecStoreLive == InitFaulty /\ [][NextStoreF]_vars /\ WF_vars(NextStoreF)

\* A client uploading and completing its session while a second caller asks
\* the queries of Storage and of UploadService, for any id and index.
NextQuery ==
    \/ \E size \in 1..SeqMaxSize : sess["u1"] = NoSession /\ InitUpload(1, "f", size)
    \/ \E i \in Idx :
          /\ "u1" \in registered
          /\ i < sess["u1"].total_chunks
          /\ UploadChunk(1, "u1", i, ProperChunk(sess["u1"].total_size, i),
                         sess["u1"].total_chunks)
    \/ "u1" \in registered /\ CompleteUpload(1, "u1")
    \/ \E u \in Ids, i \in Idx : ChunkExists(Poller, u, i)
    \/ \E u \in Ids, i \in Idx : GetChunk(Poller, u, i)
    \/ \E u \in Ids, i \in Idx : GetChunkSize(Poller, u, i)
    \/ \E u \in Ids : ListChunksCall(Poller, u)
    \/ \E u \in Ids : GetUploadStatus(Poller, u)
    \/ UploadSteps(1)
    \/ StoreSteps(1)
    \/ RE_List(1)
    \/ RE_Open(1)
    \/ RE_Read(1)
    \/ RE_Check(1)
    \/ CO_Cleanup(1)
    \/ CO_Rmdir(1)
    \/ CO_Del(1)

SpecQuery == Init /\ [][NextQuery]_vars

\* ----------------------------------------------------------------- claims
RECURSIVE Concat(_, _)
\* f[0] \o f[1] \o ... \o f[n-1]
Concat(f, n) == IF n = 0 THEN <<>> ELSE Concat(f, n - 1) \o f[n - 1]

Returned(t, op) == pc[t] = "done" /\ call[t].op = op

CompletedOk(t) == Returned(t, "complete") /\ ret[t].ok

\* C1: when complete_upload returns success, the completed file holds the
\* committed chunks concatenated in index order 0..N-1, whatever the order
\* (and however often) the indices were uploaded.
C1_IndexOrder ==
    \A t \in Threads :
        CompletedOk(t) =>
            /\ completed[Fn(t)].ex
            /\ completed[Fn(t)].data = Concat(committed[Id(t)], sess[Id(t)].total_chunks)

C1_Witness ==
    \E t \in Threads :
        /\ CompletedOk(t)
        /\ Id(t) \in ooo
        /\ sess[Id(t)].total_chunks >= 2
        /\ committed[Id(t)][0] # committed[Id(t)][1]

SumLen(u) ==
    Len(Concat([i \in Idx |-> chunk[u][i].data], sess[u].total_chunks))

\* C3: complete_upload returns success only with an output of exactly
\* total_size bytes; when the committed chunks of a complete session do not
\* add up to total_size it returns None and nothing is left at the output path.
C3_SizeLaw ==
    \A t \in Threads :
        Returned(t, "complete") =>
            /\ ret[t].ok =>
                 /\ completed[Fn(t)].ex
                 /\ Len(completed[Fn(t)].data) = sess[Id(t)].total_size
            /\ (/\ Id(t) \in registered
                /\ IsComplete(sess[Id(t)])
                /\ SumLen(Id(t)) # sess[Id(t)].total_size)
               => /\ ret[t].kind = "complete"
                  /\ ~ret[t].ok
                  /\ ~completed[Fn(t)].ex

C3_Witness ==
    \E t \in Threads :
        /\ Returned(t, "complete")
        /\ Id(t) \in registered
        /\ IsComplete(sess[Id(t)])
        /\ SumLen(Id(t)) # sess[Id(t)].total_size
        /\ ~ret[t].ok

\* C4: an upload_chunk call with valid arguments succeeds, and repeating the
\* same call right after a successful one succeeds again with the same
\* received count, the same received_chunks and the same committed file.
C4_Idempotent ==
    \A t \in Threads :
        Returned(t, "upload") =>
            /\ ValidArgs(Id(t), Ix(t), call[t].total) => ret[t].ok
            /\ rep[t].on =>
                 /\ ret[t].ok
                 /\ ret[t].count = rep[t].count
                 /\ sess[Id(t)].received = rep[t].recv
                 /\ chunk[Id(t)][Ix(t)] = rep[t].file

C4_Witness ==
    \E t \in Threads :
        /\ Returned(t, "upload")
        /\ rep[t].on
        /\ ret[t].msg = "already uploaded"
        /\ ret[t].count = 1
        /\ sess[Id(t)].total_chunks = 2

\* C10: while a session stays registered its received_chunks only grows,
\* and a status call reports every index acknowledged so far.
C10_ReceivedGrows ==
    [][/\ \A u \in registered \cap registered' :
             sess[u].received \subseteq sess'[u].received
       /\ \A t \in Threads :
             (/\ pc'[t] = "done" /\ call'[t].op = "status" /\ ret'[t].kind = "status"
              /\ <<pc[t], call[t], ret[t]>> # <<pc'[t], call'[t], ret'[t]>>)
             => acked'[call'[t].id] \subseteq Range(ret'[t].list)]_vars

C10_Witness ==
    \E t \in Threads :
        /\ Returned(t, "status")
        /\ ret[t].kind = "status"
        /\ ~ret[t].ok
        /\ acked[Id(t)] # {}
        /\ Range(ret[t].list) = acked[Id(t)]

\* C5: the N chunks of a session uploaded by N concurrent upload_chunk calls,
\* one per index: every call succeeds, the status taken after all returned
\* lists N indices with is_complete true, and complete_upload succeeds.
C5_ConcurrentDistinct ==
    /\ \A t \in Workers : Returned(t, "upload") => ret[t].ok
    /\ Returned(Client, "status") =>
          /\ ret[Client].kind = "status"
          /\ Len(ret[Client].list) = DistinctN
          /\ ret[Client].total = DistinctN
          /\ ret[Client].ok
    /\ Returned(Client, "complete") => ret[Client].ok

C5_Witness ==
    /\ \A t \in Workers : Returned(t, "upload") /\ ret[t].msg = "uploaded"
    /\ CompletedOk(Client)
    /\ Len(completed["f"].data) = sess["u1"].total_size

\* The step in which thread t returns from a call of `op`.
Returns(t, op) == pc[t] # "done" /\ pc'[t] = "done" /\ call'[t].op = op

\* C2: at the moment complete_upload returns success the completed file
\* exists, the chunk directory is gone and the session is unregistered.
C2_CompletePostcondition ==
    [][\A t \in Threads :
          (Returns(t, "complete") /\ ret'[t].ok) =>
              /\ completed'[sess[call'[t].id].filename].ex
              /\ call'[t].id \notin dirs'
              /\ call'[t].id \notin registered']_vars

\* C6: concurrent upload_chunk calls for one index with the same bytes all
\* return success, and afterwards received_chunks is exactly that index.
C6_ConcurrentSame ==
    \A t \in Threads :
        Returned(t, "upload") => ret[t].ok /\ sess[Id(t)].received = {Ix(t)}

\* C7: whatever is readable under a committed name <i>.chunk is the whole
\* payload of one store_chunk call.
C7_CommittedWhole ==
    \A u \in Ids, i \in Idx :
        chunk[u][i].ex => chunk[u][i].data \in supplied[u][i]

AllStored == \A t \in Threads : Returned(t, "store")

\* C8: once all store_chunk calls for one (upload_id, index) have returned,
\* the committed file is one of the payloads in full and some call has
\* returned true.
C8_OneWins ==
    AllStored =>
        /\ chunk["u1"][0].ex
        /\ chunk["u1"][0].data \in supplied["u1"][0]
        /\ \E t \in Threads : ret[t].ok

\* C9 as claimed: store_chunk returns true iff a committed <index>.chunk
\* exists when it returns.
C9_TrueIffCommitted ==
    [][\A t \in Threads :
          Returns(t, "store") => (ret'[t].ok <=> chunk'[Id(t)][Ix(t)].ex)]_vars

\* C9 amended: store_chunk returns true exactly in the step that renames its
\* temp file onto <index>.chunk (which then exists), and false only when its
\* third attempt failed, committing nothing in that step.
C9_TrueIffRenamed ==
    [][\A t \in Threads :
          Returns(t, "store") =>
              IF ret'[t].ok
              THEN /\ tmp[Id(t)][Ix(t)].ex
                   /\ chunk'[Id(t)][Ix(t)] = tmp[Id(t)][Ix(t)]
                   /\ chunk'[Id(t)][Ix(t)].ex
              ELSE /\ loc[t].attempt = MaxRetries - 1
                   /\ ret'[t].count = MaxRetries
                   /\ chunk' = chunk]_vars

C9_Witness ==
    \E t, v \in Threads :
        /\ Returned(t, "store") /\ ~ret[t].ok
        /\ Returned(v, "store") /\ ret[v].ok
        /\ chunk["u1"][0].ex

SawComplete == Returned(1, "status") /\ ret[1].kind = "status" /\ ret[1].ok

\* C11: a client that keeps uploading what status reports missing eventually
\* sees is_complete = true, and the complete_upload it then issues succeeds.
C11_UploadTerminates ==
    /\ <>SawComplete
    /\ SawComplete ~> CompletedOk(1)
    /\ [](Returned(1, "complete") => ret[1].ok)

C11_Witness ==
    /\ CompletedOk(1)
    /\ sess["u1"].total_chunks = 2
    /\ sess["u1"].total_size = 2 * ChunkSize - 1
    /\ acked["u1"] = {0, 1}

\* The step in which thread t's call of `op` ends (also a call that ends in
\* the step that starts it).
Ends(t, op) ==
    /\ pc'[t] = "done" /\ call'[t].op = op
    /\ <<pc[t], call[t], ret[t]>> # <<pc'[t], call'[t], ret'[t]>>

\* C12: received_chunks of a registered session changes only in the step
\* that returns a successful upload_chunk, so a failing call leaves it as it
\* was; a call failing validation ends in its first step and leaves the
\* filesystem untouched.
C12_FailureChangesNothing ==
    [][/\ \A u \in registered \cap registered' :
             sess'[u].received # sess[u].received =>
                 \E t \in Threads :
                     /\ Ends(t, "upload") /\ ret'[t].ok /\ call'[t].id = u
                     /\ sess'[u].received = sess[u].received \cup {call'[t].idx}
       /\ \A t \in Threads :
             (Ends(t, "upload") /\ ~ret'[t].ok /\ call'[t].id \in registered) =>
                 /\ sess' = sess
                 /\ ret'[t].count = Cardinality(sess[call'[t].id].received)
                 /\ ret'[t].msg \in {"invalid index", "total mismatch"} =>
                        Free(t) /\ fsvars' = fsvars]_vars

C12_Witness ==
    /\ Returned(1, "upload")
    /\ ret[1].msg = "store failed"
    /\ sess["u1"].received = {0}
    /\ Ix(1) = 1
    /\ ~chunk["u1"][1].ex

\* C13: complete_upload on a registered session that lacks some index raises
\* the incomplete-upload error naming exactly the lacking indices, and
\* changes neither the registry, the staged chunks nor the completed files.
C13_IncompleteRaises ==
    [][\A t \in Threads :
          (/\ Ends(t, "complete")
           /\ Free(t)
           /\ call'[t].id \in registered
           /\ sess[call'[t].id].received # 0..(sess[call'[t].id].total_chunks - 1))
          => /\ ret'[t].kind = "incomplete"
             /\ Range(ret'[t].list) =
                   (0..(sess[call'[t].id].total_chunks - 1)) \ sess[call'[t].id].received
             /\ Len(ret'[t].list) = Cardinality(Range(ret'[t].list))
             /\ memvars' = memvars
             /\ fsvars' = fsvars]_vars

C13_Witness ==
    /\ Returned(1, "complete")
    /\ ret[1].kind = "incomplete"
    /\ ret[1].list = <<0>>
    /\ sess["u1"].received = {1}
    /\ chunk["u1"][1].ex
    /\ "u1" \in registered

C15_ReceivedInRange ==
    \A u \in registered : sess[u].received \subseteq 0..(sess[u].total_chunks - 1)

C15_Witness ==
    /\ Returned(1, "upload")
    /\ ret[1].msg = "invalid index"
    /\ Id(1) \in registered
    /\ Ix(1) = sess[Id(1)].total_chunks
    /\ sess[Id(1)].received = 0..(sess[Id(1)].total_chunks - 1)
    /\ sess[Id(1)].total_chunks = 2

\* C16: for a registered session status returns its total_chunks, its
\* received_chunks in ascending order, and is_complete = true exactly when
\* all of 0..total_chunks-1 are received, i.e. when there are total_chunks
\* of them.
C16_StatusOfSession ==
    \A t \in Threads :
        (Returned(t, "status") /\ Id(t) \in registered) =>
            LET s == sess[Id(t)]
                q == ret[t].list
            IN  /\ ret[t].kind = "status"
                /\ ret[t].total = s.total_chunks
                /\ Range(q) = s.received
                /\ \A j, k \in 1..Len(q) : j < k => q[j] < q[k]
                /\ ret[t].ok <=> (0..(s.total_chunks - 1)) \subseteq s.received
                /\ ret[t].ok <=> Cardinality(s.received) = s.total_chunks

C16_Witness ==
    /\ Returned(1, "status")
    /\ ret[1].kind = "status"
    /\ ret[1].list = <<0, 1>>
    /\ ret[1].ok
    /\ Id(1) \in ooo

\* C17: every index in the received_chunks of a registered session has its
\* committed file, so a status answered from the registry never lists an
\* index whose <i>.chunk is absent at that moment.
C17_ReceivedOnDisk ==
    [][\A t \in Threads :
          (Ends(t, "status") /\ ret'[t].kind = "status") =>
              \A i \in Range(ret'[t].list) : chunk'[call'[t].id][i].ex]_vars

Quiet == \A t \in Threads : Free(t)

\* C18: whenever a session is registered and no call is running, the
\* indices of the committed chunk files in its directory are exactly its
\* received_chunks (and so there are as many).
C18_ReceivedIsOnDisk ==
    \A u \in registered :
        Quiet =>
            /\ Range(ListChunks(u)) = sess[u].received
            /\ Len(ListChunks(u)) = Cardinality(sess[u].received)

C18_Witness ==
    /\ Returned(1, "complete")
    /\ ret[1].kind = "complete"
    /\ ~ret[1].ok
    /\ Id(1) \in registered
    /\ sess[Id(1)].received = {0, 1}
    /\ ListChunks(Id(1)) = <<0, 1>>

\* C19: with no registered session, status returns the partial status (the
\* committed indices in ascending order, total_chunks unknown, is_complete
\* false) when chunk files are on disk, and nothing when there are none.
C19_PartialStatus ==
    [][\A t \in Threads :
          (Ends(t, "status") /\ call'[t].id \notin registered) =>
              LET onDisk == {i \in Idx : call'[t].id \in dirs /\ chunk[call'[t].id][i].ex}
                  q == ret'[t].list
              IN  IF onDisk = {}
                  THEN ret'[t] = [NoRet EXCEPT !.kind = "absent"]
                  ELSE /\ ret'[t].kind = "partial"
                       /\ Range(q) = onDisk
                       /\ \A j, k \in 1..Len(q) : j < k => q[j] < q[k]
                       /\ ret'[t].total = -1
                       /\ ~ret'[t].ok]_vars

C19_Witness ==
    /\ Returned(1, "status")
    /\ ret[1].kind = "partial"
    /\ ret[1].list = <<0, 1>>
    /\ Id(1) \notin registered
    /\ sess[Id(1)].received = {0, 1}

\* C20: GET status for an id with no registered session answers 404 when no
\* chunk is on disk, and otherwise 200 with the committed indices,
\* totalChunks = highest index + 1 and isComplete = (their number equals it).
C20_HttpPartialStatus ==
    [][\A t \in Threads :
          (Ends(t, "http_status") /\ call'[t].id \notin registered) =>
              LET onDisk == {i \in Idx : call'[t].id \in dirs /\ chunk[call'[t].id][i].ex}
              IN  IF onDisk = {}
                  THEN ret'[t].kind = "404"
                  ELSE /\ ret'[t].kind = "200"
                       /\ Range(ret'[t].list) = onDisk
                       /\ \A i \in onDisk : i < ret'[t].total
                       /\ ret'[t].total - 1 \in onDisk
                       /\ ret'[t].ok <=> Cardinality(onDisk) = ret'[t].total]_vars

C20_Witness ==
    /\ Returned(1, "http_status")
    /\ ret[1].kind = "200"
    /\ Id(1) \notin registered
    /\ ret[1].list = <<1>>
    /\ ret[1].total = 2
    /\ ~ret[1].ok

\* C21: a completed file stays as its complete_upload created it: present,
\* with the bytes of that session in index order, whatever is done with
\* other sessions afterwards (no sink runs in these runs).
C21_CompletedFileKept ==
    CompletedOk(1) =>
        /\ completed[Fn(1)].ex
        /\ completed[Fn(1)].data = Concat(committed[Id(1)], sess[Id(1)].total_chunks)

\* The verdict of the three vetoing sinks on the file a successful
\* complete_upload of thread t produced: the first reason, "" when all accept.
SinkVerdict(t) ==
    LET parts == Split(Fn(t))
        ftype == DetectFileType(parts)
        v1 == ValidateDataset(parts, completed[Fn(t)], ftype)
        v2 == ValidateSchema(parts, completed[Fn(t)], ftype)
    IN  IF v1 # "" THEN v1 ELSE IF v2 # "" THEN v2 ELSE ScanFile(completed[Fn(t)])

HandlerTakesOver(t) ==
    pc[t] = "done" /\ call[t].op = "complete" /\ call'[t].op = "http_complete"

\* C22: when a sink rejects the reassembled file, the complete request
\* returns a 400 that carries the reason of the rejection, and the file is
\* no longer in the completed directory.
C22_VetoDeletes ==
    [][\A t \in Threads :
          (HandlerTakesOver(t) /\ ret[t].ok /\ SinkVerdict(t) # "") =>
              /\ pc'[t] = "done"
              /\ ret'[t].kind = "400"
              /\ ret'[t].msg = SinkVerdict(t)
              /\ ~completed'[Fn(t)].ex]_vars

C22_Witness ==
    /\ Returned(1, "http_complete")
    /\ ret[1].kind = "400"
    /\ ret[1].msg = "Invalid JSONL format"
    /\ sess["u1"].filename = "d.jsonl"
    /\ ~completed["d.jsonl"].ex

\* C23: a complete request whose file passed the vetoing sinks answers
\* success and keeps the file, also when the registry write that follows
\* fails.
C23_SinkFailureTolerated ==
    [][\A t \in Threads :
          (/\ call[t].op = "http_complete"
           /\ pc[t] \in {"rd_read", "rd_open", "rd_write"}
           /\ pc'[t] = "done") =>
              /\ ret'[t].kind = "200"
              /\ completed'[Fn(t)].ex]_vars

\* C24: when no register_dataset call is running and all the calls made
\* have returned their id, the store holds one entry for each of them.
C24_RegistryKeepsAll ==
    (/\ Quiet
     /\ \A t \in Threads : pc[t] = "done" => ret[t].kind = "register") =>
        /\ ai.doc
        /\ Len(ai.uploads) = Cardinality({t \in Threads : pc[t] = "done"})

\* Thread t takes this step.
Acts(t) == <<pc[t], call[t], loc[t], ret[t]>> # <<pc'[t], call'[t], loc'[t], ret'[t]>>

\* Everything that belongs to the session u is left as it is.
SessionKept(u) ==
    /\ sess'[u] = sess[u]
    /\ (u \in registered') = (u \in registered)
    /\ (u \in dirs') = (u \in dirs)
    /\ chunk'[u] = chunk[u]
    /\ tmp'[u] = tmp[u]
    /\ sess[u] # NoSession => completed'[sess[u].filename] = completed[sess[u].filename]

\* C25: a step of init, upload_chunk or complete_upload on one upload id
\* leaves every other session as it is: its record, its registration, its
\* chunk directory and files and its completed file; and each of the
\* concurrently driven uploads completes with success and with its own bytes.
C25_SessionsIndependent ==
    [][\A t \in Threads :
          Acts(t) =>
              /\ \A u \in Ids : u # call'[t].id => SessionKept(u)
              /\ Ends(t, "complete") =>
                    /\ ret'[t].ok
                    /\ completed'[Fn(t)].ex
                    /\ completed'[Fn(t)].data =
                          Concat(committed'[Id(t)], sess[Id(t)].total_chunks)
                    /\ Len(completed'[Fn(t)].data) = sess[Id(t)].total_size]_vars

C25_Witness ==
    /\ CompletedOk(1)
    /\ CompletedOk(2)
    /\ completed["f"].ex
    /\ completed["g"].ex
    /\ Len(completed["f"].data) = SeqMaxSize
    /\ Len(completed["g"].data) = SeqMaxSize - 1

\* C26: an init that is accepted has total_size > 0 and registers a session
\* under an id that never had one, with no chunk received and
\* total_chunks = ceil(total_size / chunk_size) >= 1 (1 for a size of 1); it
\* returns that id and the configured chunk size and leaves the other
\* sessions and all files as they are.  An init that is rejected had
\* total_size <= 0 and changes nothing.
C26_InitRegistersFresh ==
    [][\A t \in Threads :
          /\ Ends(t, "init") =>
                LET u == call'[t].id
                    s == sess'[u]
                IN  /\ sess[u] = NoSession
                    /\ u \notin registered
                    /\ u \in registered'
                    /\ s.received = {}
                    /\ s.total_size > 0
                    /\ s.total_chunks >= 1
                    /\ s.total_chunks * ChunkSize >= s.total_size
                    /\ (s.total_chunks - 1) * ChunkSize < s.total_size
                    /\ s.total_size = 1 => s.total_chunks = 1
                    /\ ret'[t].msg = u
                    /\ ret'[t].total = ChunkSize
                    /\ \A v \in Ids \ {u} :
                          sess'[v] = sess[v] /\ (v \in registered') = (v \in registered)
                    /\ UNCHANGED fsvars
          /\ Ends(t, "http_init") =>
                /\ call'[t].total <= 0
                /\ ret'[t].kind = "422"
                /\ UNCHANGED <<registered, sess, fsvars>>]_vars

C26_Witness ==
    /\ Returned(1, "init")
    /\ call[1].id = "u2"
    /\ sess["u2"].total_size = 1
    /\ sess["u2"].total_chunks = 1
    /\ sess["u1"].received # {}
    /\ "u1" \in dirs

\* C27: an upload_chunk call with an empty payload, for an index in range
\* of a registered session and with the session's total, returns success
\* and the index is in received_chunks (its committed file has no bytes).
C27_EmptyPayloadAccepted ==
    [][\A t \in Threads :
          (/\ Ends(t, "upload")
           /\ call'[t].data = <<>>
           /\ call'[t].idx >= 0
           /\ ValidArgs(call'[t].id, call'[t].idx, call'[t].total)) =>
              /\ ret'[t].ok
              /\ call'[t].idx \in sess'[call'[t].id].received
              /\ chunk'[call'[t].id][call'[t].idx].ex]_vars

C27_Witness ==
    /\ Returned(1, "upload")
    /\ call[1].data = <<>>
    /\ ret[1].ok
    /\ call[1].idx \in sess[call[1].id].received
    /\ chunk[call[1].id][call[1].idx] = File(<<>>)

\* C28: whenever no store_chunk call is running, no <i>.chunk.tmp file is
\* in any session directory, whether the calls returned true or false.
C28_NoTempLeftBehind ==
    Quiet => \A u \in Ids, i \in Idx : ~tmp[u][i].ex

ChunkHandlerTakesOver(t) ==
    pc[t] = "done" /\ call[t].op = "upload" /\ call'[t].op = "http_chunk"

\* C29: POST chunk answers 400, and not 200, when the upload id has no
\* session, the index is out of range, the total does not match or the store
\* failed; POST complete answers 400, and not 200, when the session is
\* incomplete or missing, the reassembly failed or a sink vetoed.
C29_ErrorsAre400 ==
    [][\A t \in Threads :
          /\ (/\ ChunkHandlerTakesOver(t)
              /\ \/ call[t].id \notin registered
                 \/ call[t].idx < 0
                 \/ call[t].idx >= sess[call[t].id].total_chunks
                 \/ call[t].total # sess[call[t].id].total_chunks
                 \/ ~ret[t].ok) =>
                 ret'[t].kind = "400" /\ ~ret'[t].ok
          /\ (/\ HandlerTakesOver(t)
              /\ \/ ret[t].kind = "incomplete"
                 \/ ~ret[t].ok
                 \/ SinkVerdict(t) # "") =>
                 ret'[t].kind = "400" /\ ~ret'[t].ok]_vars

C29_Witness ==
    /\ Returned(1, "http_complete")
    /\ ret[1].kind = "400"
    /\ ret[1].msg = "Failed to complete upload"
    /\ Id(1) = "u1"
    /\ "u1" \in registered
    /\ faults = 0

\* The type the text after the last dot stands for, once lower-cased.
TypeOfExtension(e) ==
    IF e \in {"jsonl", "json", "csv", "parquet", "tsv", "txt"} THEN "dataset"
    ELSE IF e \in {"pt", "pth", "ckpt", "safetensors", "onnx", "pb", "h5"} THEN "model_artifact"
    ELSE IF e \in {"zip", "tar", "gz", "bz2"} THEN "archive"
    ELSE "unknown"

\* C30: the type reported for a name is 'unknown' when the name has no dot
\* and otherwise the type of the lower-cased text after its last dot; and
\* every upload whose content validate_dataset looked at, that was written
\* to the registry or announced to the pipelines is of type 'dataset'.
C30_TypeByExtension ==
    /\ \A t \in Threads :
          Returned(t, "detect") =>
              LET parts == call[t].name
              IN  ret[t].msg = IF Len(parts) < 2 THEN "unknown"
                               ELSE TypeOfExtension(Lower(parts[Len(parts)]))
    /\ \A u \in ai.validated \cup ai.notified \cup Range(ai.uploads) :
          TypeOfExtension(Lower(Split(sess[u].filename)[Len(Split(sess[u].filename))]))
              = "dataset"
    /\ \A t \in Threads :
          (Returned(t, "http_complete") /\ ret[t].kind = "200") =>
              (Id(t) \in ai.notified) =
                  (Len(Split(Fn(t))) >= 2 /\
                   TypeOfExtension(Lower(Split(Fn(t))[Len(Split(Fn(t)))])) = "dataset")

C30_Witness ==
    /\ Returned(1, "detect")
    /\ call[1].name = <<"a", "tar", "CSV">>
    /\ ret[1].msg = "dataset"

\* The steps of upload_chunk that touch the chunk directory.
InStorage(p) ==
    p \in {"uc_exists", "uc_size", "sc_mkdir", "sc_open", "sc_write", "sc_mkdir2",
           "sc_rename"}

\* C31: upload_chunk reports the first check that fails, in the order session
\* lookup, index range, claimed total (so an index out of range together
\* with a wrong total is an invalid index); a call that fails one of them
\* ends in its first step with the files untouched; chunk_exists runs only
\* for a call that passed all three, and store_chunk only after it.
C31_ValidationOrder ==
    [][\A t \in Threads :
          LET u == call'[t].id
              i == call'[t].idx
              n == call'[t].total
              badIndex == i < 0 \/ i >= sess[u].total_chunks
          IN  /\ (Ends(t, "upload") /\ u \notin registered) =>
                    /\ ret'[t].msg = "not found" /\ ~ret'[t].ok
                    /\ ~InStorage(pc[t]) /\ UNCHANGED fsvars
              /\ (Ends(t, "upload") /\ u \in registered /\ badIndex) =>
                    /\ ret'[t].msg = "invalid index" /\ ~ret'[t].ok
                    /\ ~InStorage(pc[t]) /\ UNCHANGED fsvars
              /\ (Ends(t, "upload") /\ u \in registered /\ ~badIndex
                    /\ n # sess[u].total_chunks) =>
                    /\ ret'[t].msg = "total mismatch" /\ ~ret'[t].ok
                    /\ ~InStorage(pc[t]) /\ UNCHANGED fsvars
              /\ (call'[t].op = "upload" /\ InStorage(pc'[t])) =>
                    /\ ~badIndex /\ n = sess[u].total_chunks
                    /\ pc'[t] = "uc_exists" => ~InStorage(pc[t])
                    /\ (pc'[t] = "sc_mkdir" /\ pc[t] # "sc_mkdir") =>
                          pc[t] \in {"uc_exists", "uc_size", "sc_open", "sc_write",
                                     "sc_rename"}]_vars

C31_Witness ==
    /\ Returned(1, "upload")
    /\ call[1].id \in registered
    /\ call[1].idx >= sess[call[1].id].total_chunks
    /\ call[1].total # sess[call[1].id].total_chunks
    /\ ret[1].msg = "invalid index"
    /\ sess[call[1].id].received # {}

\* C32: an upload_chunk call that finds <i>.chunk committed with the length
\* of its payload takes the shortcut: it returns success with the index
\* received and neither the file nor its content changes, whatever the new
\* bytes are; one that finds a different length (or no file) stores, and
\* when it returns success the committed content is its payload.
C32_IdempotencyShortcut ==
    [][\A t \in Threads :
          LET u == call[t].id
              i == call[t].idx
              same == chunk[u][i].ex /\ Len(chunk[u][i].data) = Len(call[t].data)
          IN  /\ (call[t].op = "upload" /\ pc[t] \in {"uc_exists", "uc_size", "uc_mark"}
                    /\ pc'[t] # pc[t]) =>
                    /\ chunk' = chunk /\ tmp' = tmp /\ committed' = committed
                    /\ pc[t] = "uc_exists" =>
                          pc'[t] = IF chunk[u][i].ex THEN "uc_size" ELSE "sc_mkdir"
                    /\ pc[t] = "uc_size" =>
                          pc'[t] = IF same THEN "uc_mark" ELSE "sc_mkdir"
              /\ (call[t].op = "upload" /\ pc[t] = "uc_mark") =>
                    /\ same
                    /\ Ends(t, "upload") /\ ret'[t].ok
                    /\ i \in sess'[u].received
              /\ (Ends(t, "upload") /\ ret'[t].ok /\ pc[t] # "uc_mark") =>
                    /\ chunk'[u][i] = File(call[t].data)
                    /\ committed'[u][i] = call[t].data]_vars

C32_Witness ==
    /\ Returned(1, "upload")
    /\ ret[1].ok
    /\ ret[1].msg = "already uploaded"
    /\ chunk[Id(1)][Ix(1)].ex
    /\ chunk[Id(1)][Ix(1)].data # call[1].data
    /\ Len(chunk[Id(1)][Ix(1)].data) = Len(call[1].data)
    /\ committed[Id(1)][Ix(1)] = chunk[Id(1)][Ix(1)].data

InReassemble(p) == p \in {"re_list", "re_open", "re_read", "re_check", "re_fail"}

\* C34: no step of reassemble_file, in a reassembly that succeeds or in one
\* that fails, changes a staged chunk or temp file or removes a chunk
\* directory; a committed chunk disappears only in the cleanup_chunks step of
\* a complete_upload on its session, and complete_upload reaches that step
\* only from a reassembly that returned its path.
C34_ReassemblyKeepsChunks ==
    [][/\ \A t \in Threads :
             (InReassemble(pc[t]) /\ Acts(t)) =>
                 chunk' = chunk /\ tmp' = tmp /\ dirs \subseteq dirs'
       /\ \A u \in Ids, i \in Idx :
             (chunk[u][i].ex /\ ~chunk'[u][i].ex) =>
                 \E t \in Threads :
                     pc[t] = "co_cleanup" /\ call[t].op = "complete" /\ Id(t) = u /\ Acts(t)
       /\ \A t \in Threads :
             (pc'[t] = "co_cleanup" /\ pc[t] # "co_cleanup") =>
                 /\ pc[t] = "re_check"
                 /\ completed[Fn(t)].ex
                 /\ Len(completed[Fn(t)].data) = sess[Id(t)].total_size]_vars

C34_Witness ==
    /\ Returned(1, "complete")
    /\ ret[1].kind = "complete"
    /\ ~ret[1].ok
    /\ Id(1) \in registered
    /\ sess[Id(1)].total_chunks >= 2
    /\ \A i \in 0..(sess[Id(1)].total_chunks - 1) : chunk[Id(1)][i].ex

\* C35: when complete_upload on a complete session returns None because the
\* reassembly failed, the session is still registered, its received_chunks
\* and its staged chunks are what they were, so that upload_chunk and
\* complete_upload can be called on it again; and a reassembly that finds
\* chunks adding up to total_size goes through.
C35_FailedCompleteIsRetryable ==
    [][\A t \in Threads :
          /\ (Ends(t, "complete") /\ InReassemble(pc[t]) /\ ~ret'[t].ok) =>
                /\ Id(t) \in registered'
                /\ sess'[Id(t)] = sess[Id(t)]
                /\ IsComplete(sess'[Id(t)])
                /\ chunk' = chunk /\ tmp' = tmp
                /\ \A i \in 0..(sess[Id(t)].total_chunks - 1) : chunk'[Id(t)][i].ex
          /\ (call[t].op = "complete" /\ pc[t] = "re_check"
                /\ SumLen(Id(t)) = sess[Id(t)].total_size) =>
                pc'[t] = "co_cleanup"]_vars

C35_Witness ==
    /\ Returned(1, "complete")
    /\ ret[1].kind = "complete"
    /\ ~ret[1].ok
    /\ Id(1) \in registered
    /\ IsComplete(sess[Id(1)])
    /\ SumLen(Id(1)) # sess[Id(1)].total_size
    /\ ~completed[Fn(1)].ex
InStoreChunk(p) == p \in {"sc_mkdir", "sc_open", "sc_write", "sc_mkdir2", "sc_rename"}

\* C36: every store_chunk call returns, after at most three attempts: true
\* in the step of the first rename that succeeds, false in the step in which
\* its third attempt fails; it starts a new attempt only after an error at
\* the open, the write or the rename of the first or second attempt; and
\* the attempt counter moves in no other operation.
C36_StoreTerminates ==
    /\ \A t \in Threads : (pc[t] \notin {"idle", "done"}) ~> (pc[t] = "done")
    /\ [](\A t \in Threads :
             /\ loc[t].attempt \in 0..(MaxRetries - 1)
             /\ ~InStoreChunk(pc[t]) => loc[t].attempt = 0)
    /\ [][\A t \in Threads :
             LET u == call[t].id
                 i == call[t].idx
                 renamed == /\ pc[t] = "sc_rename" /\ Acts(t)
                            /\ tmp[u][i].ex /\ ~tmp'[u][i].ex
             IN  /\ (InStoreChunk(pc[t]) /\ loc'[t].attempt # loc[t].attempt
                       /\ InStoreChunk(pc'[t])) =>
                       /\ loc'[t].attempt = loc[t].attempt + 1
                       /\ loc[t].attempt < MaxRetries - 1
                       /\ pc[t] \in {"sc_open", "sc_write", "sc_rename"}
                       /\ pc'[t] = "sc_mkdir"
                       /\ ~renamed
                 /\ renamed => (Ends(t, "store") /\ ret'[t].ok)
                 /\ (Ends(t, "store") /\ ret'[t].ok) =>
                       renamed /\ ret'[t].count = loc[t].attempt + 1
                 /\ (Ends(t, "store") /\ ~ret'[t].ok) =>
                       /\ loc[t].attempt = MaxRetries - 1
                       /\ ret'[t].count = MaxRetries
                       /\ ~renamed]_vars

C36_Witness ==
    /\ Returned(1, "store")
    /\ ret[1].ok
    /\ ret[1].count = MaxRetries
    /\ faults = MaxFaults - (MaxRetries - 1)

\* C37: the registry write comes after the three vetoing sinks have accepted
\* the file and the notification after the registry write; a rejection ends
\* the request at once, so a rejected upload is never in the catalog and
\* never announced.
C37_SinkOrder ==
    [][/\ \A t \in Threads :
             /\ (HandlerTakesOver(t) /\ ret[t].ok /\ SinkVerdict(t) # "") =>
                   /\ pc'[t] = "done"
                   /\ ai'.uploads = ai.uploads
                   /\ ai'.notified = ai.notified
                   /\ Id(t) \notin Range(ai'.uploads) \cup ai'.notified
             /\ (call'[t].op = "http_complete" /\ pc'[t] = "rd_read" /\ pc[t] # "rd_read") =>
                   /\ HandlerTakesOver(t) /\ ret[t].ok
                   /\ SinkVerdict(t) = ""
                   /\ Id(t) \in ai'.validated
       /\ \A u \in Range(ai'.uploads) \ Range(ai.uploads) :
             \E t \in Threads : pc[t] = "rd_write" /\ Id(t) = u /\ u \in ai.validated
       /\ \A u \in ai'.notified \ ai.notified :
             u \in Range(ai'.uploads) /\ u \in ai.validated]_vars

C37_Witness ==
    /\ Returned(1, "http_complete")
    /\ ret[1].kind = "400"
    /\ ret[1].msg = "Invalid JSONL format"
    /\ Id(1) \in ai.validated
    /\ ai.uploads = <<>>
    /\ ai.notified = {}

\* C38: of the complete_upload calls made for one upload id, at most one
\* returns success.
C38_CompletedOnce ==
    \A u \in Ids : Cardinality({t \in Threads : CompletedOk(t) /\ Id(t) = u}) <= 1

\* C39: when the status endpoint answers isComplete = true, every index
\* 0..total_chunks-1 of the upload, with the total_chunks fixed at its init,
\* is committed on disk; also after the registry was lost.
C39_CompleteMeansAllCommitted ==
    \A t \in Threads :
        (Returned(t, "http_status") /\ ret[t].kind = "200" /\ ret[t].ok) =>
            /\ sess[Id(t)] # NoSession
            /\ \A i \in 0..(sess[Id(t)].total_chunks - 1) :
                  Id(t) \in dirs /\ chunk[Id(t)][i].ex

QueryOps == {"chunk_exists", "get_chunk_size", "get_chunk", "list_chunks", "status"}

\* A step in which thread t returns from a query while no other thread moves.
QueryStep(t) ==
    /\ call'[t].op \in QueryOps
    /\ pc'[t] = "done"
    /\ \A o \in Threads \ {t} :
          pc'[o] = pc[o] /\ call'[o] = call[o] /\ loc'[o] = loc[o] /\ ret'[o] = ret[o]

\* C40: chunk_exists, get_chunk_size, get_chunk, list_chunks and
\* get_upload_status are read-only: for every upload id, with or without a
\* chunk directory, a call leaves the registry and the filesystem
\* (directories and files) as they were.
C40_QueriesReadOnly ==
    [][\A t \in Threads : QueryStep(t) => UNCHANGED <<registered, sess, fsvars>>]_vars

====
